---- MODULE Spec2Model ----
(***************************************************************************)
(* Listening-test platform (Gradio MOS template): the per-session trial    *)
(* sampler, the page descriptors and the session state machine of          *)
(* main2.py, with the results directory shared by all sessions.            *)
(*                                                                         *)
(* Python text (score strings, e-mail addresses, participant ids) is a     *)
(* sequence of one-character strings, so that split(':'), int() and the    *)
(* "@" test are computed on the characters.  A path or a system name is    *)
(* kept whole, as a text of one element.  An int that may be None is       *)
(* PyIntValue(n).  The timestamp of a result bundle is not modelled; file  *)
(* writes succeed, except in SpecPersistFailure.                           *)
(***************************************************************************)
EXTENDS Integers, Sequences, FiniteSets, TLC

\* Python's None where a text or an int is expected
None == <<"None">>

\* Python's None where a list of test cases is expected
NoList == <<[type |-> "None"]>>

\* an int held where None is possible
PyIntValue(n) == <<"int", n>>

IsInt(v) == Len(v) = 2 /\ v[1] = "int"

IntOf(v) == v[2]

\* ---------------------------------------------------------------------
\* Text helpers
\* ---------------------------------------------------------------------

Digits == {"0", "1", "2", "3", "4", "5", "6", "7", "8", "9"}

\* the ASCII characters int() strips from both ends of its text: space,
\* tab, line feed, vertical tab (the last element below, which has no
\* escape and is written as the character itself), form feed and carriage
\* return; text is ASCII
Whitespace == {" ", "\t", "\n", "\r", "\f", ""}

DigitVal(c) ==
    CASE c = "0" -> 0 [] c = "1" -> 1 [] c = "2" -> 2 [] c = "3" -> 3
      [] c = "4" -> 4 [] c = "5" -> 5 [] c = "6" -> 6 [] c = "7" -> 7
      [] c = "8" -> 8 [] c = "9" -> 9

\* s.split(':')[0]: the text before the first colon (all of s without one)
RECURSIVE SplitFirst(_)
SplitFirst(s) ==
    IF s = <<>> \/ Head(s) = ":" THEN <<>>
    ELSE <<Head(s)>> \o SplitFirst(Tail(s))

RECURSIVE LStrip(_)
LStrip(s) ==
    IF s # <<>> /\ Head(s) \in Whitespace THEN LStrip(Tail(s)) ELSE s

RECURSIVE RStrip(_)
RStrip(s) ==
    IF s # <<>> /\ s[Len(s)] \in Whitespace
    THEN RStrip(SubSeq(s, 1, Len(s) - 1)) ELSE s

RECURSIVE DecimalValue(_)
DecimalValue(ds) ==
    IF ds = <<>> THEN 0
    ELSE 10 * DecimalValue(SubSeq(ds, 1, Len(ds) - 1)) + DigitVal(ds[Len(ds)])

ValueError == <<"ValueError">>

\* int(text): surrounding whitespace stripped, an optional sign, then one
\* or more decimal digits, where a single underscore may stand between two
\* digits and is ignored; any other text raises ValueError
PyInt(s) ==
    LET t      == RStrip(LStrip(s))
        sign   == IF t # <<>> /\ Head(t) \in {"+", "-"} THEN Head(t) ELSE ""
        ds     == IF sign = "" THEN t ELSE Tail(t)
        digits == SelectSeq(ds, LAMBDA c : c \in Digits)
        wellformed ==
            /\ ds # <<>>
            /\ ds[1] \in Digits
            /\ ds[Len(ds)] \in Digits
            /\ \A i \in 1..Len(ds) :
                   \/ ds[i] \in Digits
                   \/ /\ ds[i] = "_"
                      /\ ds[i - 1] \in Digits
                      /\ ds[i + 1] \in Digits
    IN  IF ~wellformed THEN ValueError
        ELSE IF sign = "-" THEN PyIntValue(0 - DecimalValue(digits))
        ELSE PyIntValue(DecimalValue(digits))

\* ---------------------------------------------------------------------
\* utils.is_valid_email
\* ---------------------------------------------------------------------

Letters == {"a", "b", "f", "i", "x", "y"}

LocalChars == Letters \cup Digits \cup {".", "_", "%", "+", "-"}

DomainChars == Letters \cup Digits \cup {".", "-"}

\* ^[a-zA-Z0-9._%+-]+@[a-zA-Z0-9.-]+\.[a-zA-Z]{2,}$ on exactly the text s
FullMatch(s) ==
    \E at \in 1..Len(s) : \E dot \in (at + 1)..Len(s) :
        /\ s[at] = "@"
        /\ at > 1
        /\ \A i \in 1..(at - 1) : s[i] \in LocalChars
        /\ s[dot] = "."
        /\ dot > at + 1
        /\ \A i \in (at + 1)..(dot - 1) : s[i] \in DomainChars
        /\ Len(s) - dot >= 2
        /\ \A i \in (dot + 1)..Len(s) : s[i] \in Letters

\* re.match with a trailing $: the pattern may also end just before one
\* final newline
is_valid_email(email) ==
    /\ email # None
    /\ email # <<>>
    /\ \/ FullMatch(email)
       \/ /\ email[Len(email)] = "\n"
          /\ FullMatch(SubSeq(email, 1, Len(email) - 1))

\* ---------------------------------------------------------------------
\* The MOSTest object: what main constructed it with
\* ---------------------------------------------------------------------

VARIABLE cfg    \* the configuration: catalog, sample size, pages, page module

\* ---------------------------------------------------------------------
\* pages/english.py: the page classes
\* ---------------------------------------------------------------------

PAGE_CLASSES ==
    [smos |-> "SMOSPage", SMOS |-> "SMOSPage",
     smos_instruction |-> "SMOSInstructionPage",
     cmos |-> "CMOSPage", CMOS |-> "CMOSPage",
     cmos_instruction |-> "CMOSInstructionPage",
     attention |-> "AttentionPage",
     emos |-> "EMOSPage", EMOS |-> "EMOSPage",
     emos_instruction |-> "EMOSInstructionPage",
     nmos |-> "NMOSPage", NMOS |-> "NMOSPage",
     nmos_instruction |-> "NMOSInstructionPage",
     qmos |-> "QMOSPage", QMOS |-> "QMOSPage",
     qmos_instruction |-> "QMOSInstructionPage"]

\* no page object (get_current_page returns None)
NoPage == [class |-> "None"]

\* create_page raised: ValueError("Unknown test type"), or the exception
\* of a page class that cannot be constructed
PageError == [class |-> "ValueError"]

\* PageFactory.create_page of the page module the MOSTest object was built
\* with (pages/english.py unless the configuration carries the page table of
\* another module): the page object is its class and its test case.  A type
\* the module does not register raises ValueError and a class that cannot be
\* constructed raises from its constructor; the callers do not tell the two
\* apart, and both are PageError here.
create_page(test_case) ==
    IF "pages" \in DOMAIN cfg
    THEN IF test_case.type \in DOMAIN cfg.pages
            /\ cfg.pages[test_case.type].raises = "none"
         THEN [class |-> PAGE_CLASSES[test_case.type], test_case |-> test_case]
         ELSE PageError
    ELSE IF test_case.type \in DOMAIN PAGE_CLASSES
    THEN [class |-> PAGE_CLASSES[test_case.type], test_case |-> test_case]
    ELSE PageError

\* isinstance(page, EMOSPage)
IsEMOSPage(page) == page.class \in {"EMOSPage", "EMOSInstructionPage"}

\* isinstance(page, NoReferencePage)
IsNoReferencePage(page) ==
    page.class \in {"NMOSPage", "NMOSInstructionPage", "QMOSPage",
                    "QMOSInstructionPage", "EMOSPage", "EMOSInstructionPage"}

\* isinstance(page, CMOSPage)
IsCMOSPage(page) ==
    page.class \in {"CMOSPage", "CMOSInstructionPage", "AttentionPage"}

\* <<min, max, default>> of the class the page was made from: the class of
\* the page module in the configuration, pages/english.py without one
get_slider_config(page) ==
    IF "pages" \in DOMAIN cfg
    THEN cfg.pages[page.test_case.type].slider_config
    ELSE IF IsCMOSPage(page) THEN <<0 - 3, 3, 0>> ELSE <<1, 5, 3>>

get_reference_audio(page) ==
    IF IsNoReferencePage(page) THEN None ELSE page.test_case.reference

get_target_audio(page) == page.test_case.target

get_edited_transcript(page) == page.test_case.edited_transcript

validate_score(page, score) ==
    get_slider_config(page)[1] <= score /\ score <= get_slider_config(page)[2]

\* ---------------------------------------------------------------------
\* utils.TestCasesSampler and MOSTest.sample_test_cases_for_session
\*
\* A dict is the sequence of its entries [test, cases] in insertion order.
\* A random draw is the set of the results it can produce.
\* ---------------------------------------------------------------------

\* the injective maps 1..k -> 1..n: the index choices of random.sample
Injections(k, n) ==
    {f \in [1..k -> 1..n] : \A i, j \in 1..k : i # j => f[i] # f[j]}

\* a variant that draws with replacement, as random.choices does
RandomChoices(population, k) ==
    {[i \in 1..k |-> population[f[i]]] : f \in [1..k -> 1..Len(population)]}

\* random.sample(population, k): k items drawn without replacement, in any
\* order; raises ValueError (no result) when k > len(population)
RandomSample(population, k) ==
    {[i \in 1..k |-> population[f[i]]] : f \in Injections(k, Len(population))}

\* random.shuffle(cases): any reordering
Shuffles(cases) == RandomSample(cases, Len(cases))

\* what one comparison group can contribute (utils.py lines 48-51)
GroupDraws(cases, sample_size_per_test) ==
    IF Len(cases) <= sample_size_per_test
    THEN {cases}
    ELSE RandomSample(cases, sample_size_per_test)

\* the inner loop over the groups of one test type, extending one list
RECURSIVE SampleSystemPairs(_, _)
SampleSystemPairs(system_pairs, sample_size_per_test) ==
    IF system_pairs = <<>> THEN {<<>>}
    ELSE {drawn \o rest :
            drawn \in GroupDraws(Head(system_pairs), sample_size_per_test),
            rest \in SampleSystemPairs(Tail(system_pairs), sample_size_per_test)}

\* TestCasesSampler.sample_test_cases: a key of the defaultdict exists only
\* once its loop body ran, i.e. for a test type with at least one group
RECURSIVE sample_test_cases(_, _)
sample_test_cases(catalog, sample_size_per_test) ==
    IF catalog = <<>> THEN {<<>>}
    ELSE {(IF Head(catalog).system_pairs = <<>> THEN <<>>
           ELSE <<[test |-> Head(catalog).test, cases |-> cases]>>) \o rest :
            cases \in SampleSystemPairs(Head(catalog).system_pairs,
                                        sample_size_per_test),
            rest \in sample_test_cases(Tail(catalog), sample_size_per_test)}

\* questions[key] of a defaultdict(list): a missing key reads as []
DictGet(questions, key) ==
    IF \E i \in 1..Len(questions) : questions[i].test = key
    THEN questions[CHOOSE i \in 1..Len(questions) : questions[i].test = key].cases
    ELSE <<>>

\* the list under key replaced; a key first touched is appended to the dict
DictSet(questions, key, cases) ==
    IF \E i \in 1..Len(questions) : questions[i].test = key
    THEN [i \in 1..Len(questions) |->
            IF questions[i].test = key
            THEN [test |-> key, cases |-> cases] ELSE questions[i]]
    ELSE Append(questions, [test |-> key, cases |-> cases])

\* a variant that puts the instruction behind the trials of its bucket
InsertInstructionLast(questions, instruction) ==
    CASE instruction.type = "smos_instruction" ->
            {DictSet(questions, "SMOS", shuffled \o <<instruction>>) :
                shuffled \in Shuffles(DictGet(questions, "SMOS"))}
      [] instruction.type = "cmos_instruction" ->
            {DictSet(questions, "CMOS", shuffled \o <<instruction>>) :
                shuffled \in Shuffles(DictGet(questions, "CMOS"))}
      [] instruction.type \in {"qmos_instruction", "qmos_negative_instruction"} ->
            {DictSet(questions, "QMOS", DictGet(questions, "QMOS") \o <<instruction>>)}
      [] OTHER -> {questions}

\* one iteration of the loop over instruction_pages (main2.py lines 54-68)
InsertInstruction(questions, instruction) ==
    CASE instruction.type = "smos_instruction" ->
            {DictSet(questions, "SMOS", <<instruction>> \o shuffled) :
                shuffled \in Shuffles(DictGet(questions, "SMOS"))}
      [] instruction.type = "cmos_instruction" ->
            {DictSet(questions, "CMOS", <<instruction>> \o shuffled) :
                shuffled \in Shuffles(DictGet(questions, "CMOS"))}
      [] instruction.type \in {"qmos_instruction", "qmos_negative_instruction"} ->
            {DictSet(questions, "QMOS", <<instruction>> \o DictGet(questions, "QMOS"))}
      [] OTHER -> {questions}

RECURSIVE InsertInstructions(_, _)
InsertInstructions(questions, instruction_pages) ==
    IF instruction_pages = NoList \/ instruction_pages = <<>> THEN {questions}
    ELSE UNION {InsertInstructions(q, Tail(instruction_pages)) :
                    q \in InsertInstruction(questions, Head(instruction_pages))}

\* test_cases.extend(cases) for every entry of the dict, in order
RECURSIVE Flatten(_)
Flatten(questions) ==
    IF questions = <<>> THEN <<>>
    ELSE Head(questions).cases \o Flatten(Tail(questions))

\* a variant that adds the item at the end, as list.append does
ListInsertAtEnd(list, index, item) == Append(list, item)

\* list.insert(index, item) for 0 <= index <= len(list)
ListInsert(list, index, item) ==
    SubSeq(list, 1, index) \o <<item>> \o SubSeq(list, index + 1, Len(list))

num_attention == 3

\* math.floor(0.2 * k * n): equal to the integer quotient for every n < 200
FloorFifths(k, n) == (k * n) \div 5

\* the loop of main2.py lines 76-83 from its i-th iteration (i from 0) on
RECURSIVE InsertAttention(_, _, _)
InsertAttention(test_cases, checks, i) ==
    IF i >= Len(checks) THEN {test_cases}
    ELSE UNION {InsertAttention(ListInsert(test_cases, index, checks[i + 1]),
                                checks, i + 1) :
                    index \in FloorFifths(i + 1, Len(test_cases))
                              ..FloorFifths(i + 2, Len(test_cases))}

\* MOSTest.sample_test_cases_for_session: the sequences one call can return
\* (none when random.sample raises on a pool of fewer than num_attention)
sample_test_cases_for_session(catalog, sample_size_per_test, instruction_pages, attention_checks) ==
    UNION {
      UNION {
        IF attention_checks = NoList THEN {Flatten(questions)}
        ELSE UNION {InsertAttention(Flatten(questions), checks, 0) :
                        checks \in RandomSample(attention_checks, num_attention)} :
        questions \in InsertInstructions(sampled, instruction_pages)} :
      sampled \in sample_test_cases(catalog, sample_size_per_test)}

\* ---------------------------------------------------------------------
\* MOSTest.sample_test_cases_for_session of main.py: attention checks and
\* instruction pages are fixed in the constructor (main.py lines 17-40)
\* ---------------------------------------------------------------------

main_attention_checks ==
    <<[type |-> "attention", reference |-> <<"audios/attention_high.wav">>,
       target |-> <<"audios/attention_high.wav">>],
      [type |-> "attention", reference |-> <<"audios/attention_high.wav">>,
       target |-> <<"audios/attention_high.wav">>]>>

main_instruction_pages ==
    <<[type |-> "smos_instruction", reference |-> <<"audios/1.wav">>,
       target |-> <<"audios/1.wav">>],
      [type |-> "cmos_instruction", reference |-> <<"audios/4.wav">>,
       target |-> <<"audios/4.wav">>]>>

\* random.shuffle(cases); test_cases.extend(cases) for every entry
RECURSIVE ShuffleAndFlatten(_)
ShuffleAndFlatten(questions) ==
    IF questions = <<>> THEN {<<>>}
    ELSE {shuffled \o rest : shuffled \in Shuffles(Head(questions).cases),
                             rest \in ShuffleAndFlatten(Tail(questions))}

\* int(0.25 * n) and int(0.9 * n): the integer quotients for every n < 200
QuarterOf(n) == n \div 4

NineTenthsOf(n) == (9 * n) \div 10

\* the loop of main.py lines 50-54 from its i-th iteration (i from 0) on
RECURSIVE InsertAttentionMain(_, _, _)
InsertAttentionMain(test_cases, checks, i) ==
    IF i >= Len(checks) THEN {test_cases}
    ELSE UNION {InsertAttentionMain(ListInsert(test_cases, index, checks[i + 1]),
                                    checks, i + 1) :
                    index \in QuarterOf(Len(test_cases))
                              ..NineTenthsOf(Len(test_cases))}

\* main.py's sample_test_cases_for_session: the sequences one call can return
sample_test_cases_for_session_main(catalog, sample_size_per_test) ==
    UNION {
      UNION {{main_instruction_pages \o with_checks :
                with_checks \in InsertAttentionMain(flat, main_attention_checks, 0)} :
             flat \in ShuffleAndFlatten(questions)} :
      questions \in sample_test_cases(catalog, sample_size_per_test)}

\* ---------------------------------------------------------------------
\* MOSTest (main2.py): helpers of the handlers
\* ---------------------------------------------------------------------

\* Python truthiness of a text-or-None value ('if user_id', 'if email_input')
Truthy(v) == v # None /\ v # <<>>

\* MOSTest.get_current_page
get_current_page(test_cases, current_page) ==
    IF current_page < Len(test_cases)
    THEN create_page(test_cases[current_page + 1])
    ELSE NoPage

\* the audio shown in the reference slot for a page (lines 313, 544); the
\* slot is visible exactly when this is not None
ReferenceShown(page) ==
    IF page = NoPage \/ IsEMOSPage(page) THEN None ELSE get_reference_audio(page)

TargetShown(page) == IF page = NoPage THEN None ELSE get_target_audio(page)

\* the try block of run_test (lines 213-218): <<naturalness_score_int,
\* editing_score_int>>; a ValueError in either conversion clears both
ParseScores(naturalness_score, editing_score) ==
    LET n == IF Truthy(naturalness_score)
             THEN PyInt(SplitFirst(naturalness_score)) ELSE None
        e == IF Truthy(editing_score)
             THEN PyInt(SplitFirst(editing_score)) ELSE None
    IN  IF n = ValueError \/ e = ValueError THEN <<None, None>> ELSE <<n, e>>

\* line 191
needs_reference(page) ==
    ~IsEMOSPage(page) /\ get_reference_audio(page) # None

\* a variant that forgets the reference slot
PlaybackIncompleteTargetOnly(page, ref_audio_played, target_audio_played) ==
    ~target_audio_played

\* the two playback checks of run_test (lines 194-204): TRUE when the
\* submission is turned back because a required audio was not played
PlaybackIncomplete(page, ref_audio_played, target_audio_played) ==
    \/ ~target_audio_played
    \/ needs_reference(page) /\ ~ref_audio_played

\* a variant that applies the swap correction at submission: the score
\* negated and the two systems exchanged for a swapped trial
ResultEntryCorrected(test_case, page, naturalness_score_int, editing_score_int, url_params) ==
    LET swapped == test_case.swap /\ IsInt(naturalness_score_int)
        entry == [test_type       |-> test_case.type,
                  reference_audio |-> test_case.reference,
                  target_audio    |-> test_case.target,
                  ref_system      |-> IF swapped THEN test_case.target_system
                                      ELSE test_case.ref_system,
                  target_system   |-> IF swapped THEN test_case.ref_system
                                      ELSE test_case.target_system,
                  swap            |-> test_case.swap,
                  score           |-> IF swapped
                                      THEN PyIntValue(0 - IntOf(naturalness_score_int))
                                      ELSE naturalness_score_int]
    IN  IF url_params # <<>> THEN entry @@ [url_params |-> url_params]
        ELSE entry

\* result_entry (lines 224-250)
ResultEntry(test_case, page, naturalness_score_int, editing_score_int, url_params) ==
    LET common == [test_type       |-> test_case.type,
                   reference_audio |-> test_case.reference,
                   target_audio    |-> test_case.target,
                   ref_system      |-> test_case.ref_system,
                   target_system   |-> test_case.target_system,
                   swap            |-> test_case.swap]
        scored == IF IsEMOSPage(page)
                  THEN common @@ [naturalness_score |-> naturalness_score_int,
                                  editing_score     |-> editing_score_int,
                                  edited_transcript |-> get_edited_transcript(page)]
                  ELSE common @@ [score |-> naturalness_score_int]
    IN  IF url_params # <<>> THEN scored @@ [url_params |-> url_params]
        ELSE scored

\* a variant that counts the page twice
AdvancePageTwice(current_page) == current_page + 2

\* line 254
AdvancePage(current_page) == current_page + 1

\* a variant that takes every recorded page for the last one
TestFinishedAlways(current_page, total_pages) == TRUE

\* a variant that finishes one page early
TestFinishedEarly(current_page, total_pages) == current_page + 1 >= total_pages

\* line 257
TestFinished(current_page, total_pages) == current_page >= total_pages

\* a variant that bundles the list as it was before the last append
FinalResultsStale(user_id, results) ==
    [user_id |-> user_id, results |-> SubSeq(results, 1, Len(results) - 1)]

\* final_results (lines 263-267), without the timestamp
FinalResults(user_id, results) == [user_id |-> user_id, results |-> results]

\* the end of the name of a bundle file (line 258)
ResultsSuffix ==
    <<"_", "r", "e", "s", "u", "l", "t", "s", ".", "j", "s", "o", "n">>

\* f"{user_id}_results.json" (line 258): the name of the file a
\* participant's bundle is written to; a user_id of None is formatted as
\* the text None.  The ids here hold no "/".
ResultsFile(user_id) ==
    (IF user_id = None THEN <<"N", "o", "n", "e">> ELSE user_id)
    \o ResultsSuffix

\* glob.glob of '*' followed by a literal ending, in a directory: the
\* names that end with it; '*' matches no leading dot, so that a name that
\* begins with a dot is not listed
Glob(dir, ending) ==
    {name \in DOMAIN dir :
        /\ Len(name) >= Len(ending)
        /\ name[1] # "."
        /\ SubSeq(name, Len(name) - Len(ending) + 1, Len(name)) = ending}

\* a variant that opens the file for appending: the records of an existing
\* bundle are kept in front of the new ones
WriteResultsAppend(dir, user_id, results) ==
    (ResultsFile(user_id) :>
        FinalResults(user_id,
            (IF ResultsFile(user_id) \in DOMAIN dir
             THEN IF "results" \in DOMAIN dir[ResultsFile(user_id)]
                  THEN dir[ResultsFile(user_id)].results ELSE <<>>
             ELSE <<>>)
            \o results)) @@ dir

\* open(filename, "w") + json.dump (lines 258-271): the results directory
\* after the write, a function from file names to file contents
WriteResults(dir, user_id, results) ==
    (ResultsFile(user_id) :> FinalResults(user_id, results)) @@ dir

\* '"@" in user_id' (line 272)
HasAt(user_id) == \E i \in 1..Len(user_id) : user_id[i] = "@"

NoUpdate == <<"update()">>

\* a variant that returns the played flag it received
PlayedKept(played) == played

\* the played flags an accepted submission returns (lines 305-306, 352-353)
PlayedAfterAdvance(played) == FALSE

\* a variant that returns only the trials still to come
TestCasesRemaining(test_cases, new_page) ==
    SubSeq(test_cases, new_page + 1, Len(test_cases))

\* the test_cases output of an accepted submission (lines 302, 349): the
\* list run_test received
ReturnedTestCases(test_cases, new_page) == test_cases

\* MOSTest.run_test: the values it returns for the session state and the
\* components the model tracks, and whether it writes the bundle.
\* reference and target are the audio set (None hides the slot) or
\* NoUpdate; submit_score is update(visible=...); redirect is TRUE for
\* update(visible=True) and FALSE for update().
\* A page that cannot be created raises: raised = TRUE and nothing is
\* returned; results is then the list as the call left it (the append of
\* line 252 is made in place on the list held by the session).
run_test(user_id, naturalness_score, ref_audio_played, target_audio_played, editing_score, test_cases, current_page, results, url_params) ==
    LET total_pages == Len(test_cases)
        unchanged == [raised |-> FALSE, write |-> FALSE,
                      reference |-> NoUpdate, target |-> NoUpdate,
                      submit_score |-> TRUE, redirect |-> FALSE,
                      test_cases |-> test_cases, current_page |-> current_page,
                      results |-> results,
                      ref_audio_played |-> ref_audio_played,
                      target_audio_played |-> target_audio_played]
        current_page_obj == get_current_page(test_cases, current_page)
        scores == ParseScores(naturalness_score, editing_score)
        new_results == Append(results,
                              ResultEntry(test_cases[current_page + 1],
                                          current_page_obj,
                                          scores[1], scores[2], url_params))
        new_page == AdvancePage(current_page)
        next_page == get_current_page(test_cases, new_page)
    IN  IF ~Truthy(user_id) \/ current_page >= total_pages THEN unchanged
        ELSE IF current_page_obj = PageError
        THEN [unchanged EXCEPT !.raised = TRUE]
        ELSE IF PlaybackIncomplete(current_page_obj, ref_audio_played,
                                   target_audio_played)
        THEN unchanged
        ELSE IF naturalness_score = None THEN unchanged
        ELSE IF TestFinished(new_page, total_pages)
        THEN [raised |-> FALSE, write |-> TRUE,
              reference |-> None, target |-> None,
              submit_score |-> FALSE,
              redirect |-> ~HasAt(user_id),
              test_cases |-> ReturnedTestCases(test_cases, new_page),
              current_page |-> new_page,
              results |-> new_results,
              ref_audio_played |-> PlayedAfterAdvance(ref_audio_played),
              target_audio_played |-> PlayedAfterAdvance(target_audio_played)]
        ELSE IF next_page = PageError
        THEN [unchanged EXCEPT !.raised = TRUE, !.results = new_results]
        ELSE [raised |-> FALSE, write |-> FALSE,
              reference |-> ReferenceShown(next_page),
              target |-> TargetShown(next_page),
              submit_score |-> TRUE, redirect |-> FALSE,
              test_cases |-> ReturnedTestCases(test_cases, new_page),
              current_page |-> new_page,
              results |-> new_results,
              ref_audio_played |-> PlayedAfterAdvance(ref_audio_played),
              target_audio_played |-> PlayedAfterAdvance(target_audio_played)]

\* ---------------------------------------------------------------------
\* The running application: browser sessions of one server process
\* ---------------------------------------------------------------------

Sessions == {"s1", "s2"}

\* page loads explored in one run
MaxLoads == 2

\* test cases of the catalog used below
Trial(type, reference, target, swap) ==
    [type |-> type, reference |-> reference, target |-> target,
     ref_system |-> IF reference = None THEN None ELSE <<"sysA">>,
     target_system |-> <<"sysB">>, swap |-> swap, edited_transcript |-> <<>>]

cmos1 == Trial("CMOS", <<"a1.wav">>, <<"b1.wav">>, FALSE)

cmos2 == Trial("CMOS", <<"b2.wav">>, <<"a2.wav">>, TRUE)

qmos1 == Trial("QMOS", None, <<"b3.wav">>, FALSE)

\* the configurations MOSTest is constructed with (main, lines 680-693)
Configs ==
    {[test_cases |-> <<[test |-> "CMOS", system_pairs |-> <<<<cmos1, cmos2>>>>],
                       [test |-> "QMOS", system_pairs |-> <<<<qmos1>>>>]>>,
      sample_size_per_test |-> 1,
      instruction_pages |-> NoList,
      attention_checks |-> NoList],
     [test_cases |-> <<[test |-> "QMOS", system_pairs |-> <<<<qmos1>>>>]>>,
      sample_size_per_test |-> 1,
      instruction_pages |-> NoList,
      attention_checks |-> NoList]}

\* texts a participant or a link can supply
EmailGood == <<"a", "@", "b", ".", "f", "i">>

EmailBad == <<"a", "@", "b">>

Pid == <<"x", "1">>

EmailInputs == {<<>>, EmailGood, EmailBad}

\* request.query_params: a dict from parameter name to text
UrlParams == {<<>>, [PROLIFIC_PID |-> Pid]}

\* a link whose PROLIFIC_PID parameter is empty
BlankPidParams == [PROLIFIC_PID |-> <<>>]

\* the value of the score radio: nothing selected, or "value: label" text
ScoreInputs ==
    {None, <<"2", ":", " ", "G">>, <<"G">>}

EditingInputs == {None, <<"1", ":", " ", "S">>}

\* the score picked in the runs with several participants
SharedScoreInputs == {<<"2", ":", " ", "G">>}

VARIABLES
    user_id,                    \* gr.State, per session
    url_params_state,
    test_cases_state,
    current_page_state,
    results_state,
    ref_audio_played_state,
    target_audio_played_state,
    prolific_pid,               \* value of the hidden Prolific PID textbox
    id_input_section,           \* visible?
    test_interface,             \* visible?
    reference,                  \* audio shown in the reference slot, None if hidden or empty
    reference_visible,          \* visible? (the reference slot itself)
    target,                     \* audio in the target slot, None if empty
    submit_score,               \* visible?
    redirect,                   \* visible?
    results_dir,                \* the results directory: file name -> content
    writes,                     \* per session: result files written so far
    loads,                      \* page loads served so far
    event,                      \* the handler call made last, with its inputs
    sampled_cases               \* what a sampler called on its own returned

vars == <<cfg, user_id, url_params_state, test_cases_state, current_page_state,
          results_state, ref_audio_played_state, target_audio_played_state,
          prolific_pid, id_input_section, test_interface, reference, reference_visible, target,
          submit_score, redirect, results_dir, writes, loads, event,
          sampled_cases>>

\* a variant in which the value is one object shared by all sessions
SetForEverySession(state, s, v) == [x \in DOMAIN state |-> v]

\* a session-scoped value (gr.State, or a component as one browser sees it)
\* after the handler of session s returned v for it
SetForSession(state, s, v) == [state EXCEPT ![s] = v]

\* a component output: update() leaves the component as it is
Updated(component, s, v) ==
    IF v = NoUpdate THEN component ELSE SetForSession(component, s, v)

\* whether an audio slot is visible after run_test of main2.py returned v
\* for it: update() leaves it, the finished test hides it (line 287) and a
\* next trial shows it when it has that audio (visible=ref_audio is not
\* None, line 342)
Shown(component_visible, s, v) ==
    IF v = NoUpdate THEN component_visible
    ELSE SetForSession(component_visible, s, v # None)

\* str(n) of an int
RECURSIVE PyStr(_)
PyStr(n) ==
    IF n < 0 THEN <<"-">> \o PyStr(0 - n)
    ELSE IF n < 10
         THEN <<CHOOSE c \in Digits : DigitVal(c) = n>>
         ELSE PyStr(n \div 10) \o <<CHOOSE c \in Digits : DigitVal(c) = n % 10>>

\* the participants start_test admits (line 505)
ParticipantCap == 30

\* the user_id of the i-th earlier participant
EarlierParticipant(i) == <<"p">> \o PyStr(i)

\* results/ with the bundles of n earlier participants, each of whom rated
\* the one QMOS trial
EarlierBundles(n) ==
    [name \in {ResultsFile(EarlierParticipant(i)) : i \in 1..n} |->
        FinalResults(SubSeq(name, 1, Len(name) - Len(ResultsSuffix)),
                     <<ResultEntry(qmos1, create_page(qmos1),
                                   PyIntValue(4), None, <<>>)>>)]

\* the values a session starts from (create_interface, lines 360-435), in a
\* results directory that is empty or that earlier participants have
\* filled up to the cap
Init ==
    /\ cfg \in Configs
    /\ user_id = [s \in Sessions |-> None]
    /\ url_params_state = [s \in Sessions |-> <<>>]
    /\ test_cases_state = [s \in Sessions |-> <<>>]
    /\ current_page_state = [s \in Sessions |-> 0]
    /\ results_state = [s \in Sessions |-> <<>>]
    /\ ref_audio_played_state = [s \in Sessions |-> FALSE]
    /\ target_audio_played_state = [s \in Sessions |-> FALSE]
    /\ prolific_pid = [s \in Sessions |-> <<>>]
    /\ id_input_section = [s \in Sessions |-> TRUE]
    /\ test_interface = [s \in Sessions |-> FALSE]
    /\ reference = [s \in Sessions |-> None]
    /\ reference_visible = [s \in Sessions |-> TRUE]
    /\ target = [s \in Sessions |-> None]
    /\ submit_score = [s \in Sessions |-> TRUE]
    /\ redirect = [s \in Sessions |-> FALSE]
    /\ results_dir \in {<<>>, EarlierBundles(ParticipantCap)}
    /\ writes = [s \in Sessions |-> 0]
    /\ loads = 0
    /\ event = [op |-> "none", s |-> "none"]
    /\ sampled_cases = NoList

\* a variant that looks the parameter up under a lower-case name
GetLowercasePid(params) ==
    IF "prolific_pid" \in DOMAIN params THEN params["prolific_pid"] ELSE None

\* params.get('PROLIFIC_PID')
GetProlificPid(params) ==
    IF "PROLIFIC_PID" \in DOMAIN params THEN params["PROLIFIC_PID"] ELSE None

\* load_and_populate (lines 437-500): the browser of session s opens the
\* page with query parameters params; a page load is a new Gradio session,
\* so the components the handler does not set are as constructed.  (A load
\* that raises on an unknown first page type is left out: every type of
\* Configs is registered.)
Load(s, params) ==
    /\ loads < MaxLoads
    /\ loads' = loads + 1
    /\ event' = [op |-> "load_and_populate", s |-> s, params |-> params]
    /\ \E new_test_cases \in sample_test_cases_for_session(
            cfg.test_cases, cfg.sample_size_per_test,
            cfg.instruction_pages, cfg.attention_checks) :
        LET prolific_pid_from_url == GetProlificPid(params)
            page == get_current_page(new_test_cases, 0)
            auto == Truthy(prolific_pid_from_url)
        IN  /\ ~(auto /\ page = PageError)
            /\ url_params_state' = SetForSession(url_params_state, s, params)
            /\ prolific_pid' = SetForSession(prolific_pid, s,
                                    IF auto THEN prolific_pid_from_url ELSE <<>>)
            /\ id_input_section' = SetForSession(id_input_section, s, ~auto)
            /\ test_interface' = SetForSession(test_interface, s, auto)
            /\ user_id' = SetForSession(user_id, s,
                                    IF auto THEN prolific_pid_from_url ELSE None)
            /\ reference' = SetForSession(reference, s,
                    IF auto /\ page # NoPage THEN get_reference_audio(page) ELSE None)
            /\ reference_visible' = SetForSession(reference_visible, s,
                    auto /\ page # NoPage /\ get_reference_audio(page) # None)
            /\ target' = SetForSession(target, s,
                    IF auto THEN TargetShown(page) ELSE None)
            /\ test_cases_state' = SetForSession(test_cases_state, s, new_test_cases)
            /\ current_page_state' = SetForSession(current_page_state, s, 0)
            /\ results_state' = SetForSession(results_state, s, <<>>)
            /\ ref_audio_played_state' = SetForSession(ref_audio_played_state, s, FALSE)
            /\ target_audio_played_state' = SetForSession(target_audio_played_state, s, FALSE)
            /\ submit_score' = SetForSession(submit_score, s, TRUE)
            /\ redirect' = SetForSession(redirect, s, FALSE)
            /\ writes' = SetForSession(writes, s, 0)
            /\ UNCHANGED <<cfg, results_dir, sampled_cases>>

\* len(glob.glob("results/*_results.json")) (line 504)
NumResults(dir) == Cardinality(Glob(dir, ResultsSuffix))

\* a variant that only asks for some text in either box
IdentityRefusedIfBlank(email_input, pid_input) ==
    ~Truthy(email_input) /\ ~Truthy(pid_input)

\* 'not is_valid_email(email_input) and not pid_input' (line 522)
IdentityRefused(email_input, pid_input) ==
    ~is_valid_email(email_input) /\ ~Truthy(pid_input)

\* a variant that leaves the identity section on the page after a start
IdSectionKeptVisible(refused) == TRUE

\* the id_input_section output of start_test (lines 510, 526, 575): shown
\* again after a refusal, hidden once the test is started
IdSectionAfterStart(refused) == refused

\* start_test (lines 502-585): the Start button of the identity section,
\* with the text typed into the e-mail box; the Prolific PID box is hidden
\* and holds what load_and_populate put there
StartTest(s, email_input) ==
    /\ id_input_section[s]
    /\ event' = [op |-> "start_test", s |-> s, email_input |-> email_input]
    /\ LET pid_input == prolific_pid[s]
           refused == \/ NumResults(results_dir) >= ParticipantCap
                      \/ IdentityRefused(email_input, pid_input)
           valid_id == IF Truthy(email_input) THEN email_input ELSE pid_input
           first_page == get_current_page(test_cases_state[s], 0)
       IN  /\ first_page # PageError
           /\ user_id' = SetForSession(user_id, s,
                                IF refused THEN None ELSE valid_id)
           /\ id_input_section' = SetForSession(id_input_section, s,
                                IdSectionAfterStart(refused))
           /\ test_interface' = SetForSession(test_interface, s, ~refused)
           /\ reference' = SetForSession(reference, s,
                                IF refused THEN None ELSE ReferenceShown(first_page))
           /\ reference_visible' = SetForSession(reference_visible, s,
                                ~refused /\ ReferenceShown(first_page) # None)
           /\ target' = SetForSession(target, s,
                                IF refused THEN None ELSE TargetShown(first_page))
           /\ current_page_state' = SetForSession(current_page_state, s, 0)
           /\ results_state' = SetForSession(results_state, s, <<>>)
    /\ UNCHANGED <<cfg, url_params_state, test_cases_state,
                   ref_audio_played_state, target_audio_played_state,
                   prolific_pid, submit_score, redirect, results_dir, writes,
                   loads, sampled_cases>>

\* reference.stop -> mark_ref_audio_played (lines 623-632): the reference
\* audio shown to session s was played to its end
MarkRefAudioPlayed(s) ==
    /\ test_interface[s]
    /\ event' = [op |-> "mark_ref_audio_played", s |-> s]
    /\ reference[s] # None
    /\ ref_audio_played_state' = SetForSession(ref_audio_played_state, s, TRUE)
    /\ UNCHANGED <<cfg, user_id, url_params_state, test_cases_state,
                   current_page_state, results_state, target_audio_played_state,
                   prolific_pid, id_input_section, test_interface, reference, reference_visible,
                   target, submit_score, redirect, results_dir, writes, loads,
                   sampled_cases>>

\* target.stop -> mark_target_audio_played (lines 626-637)
MarkTargetAudioPlayed(s) ==
    /\ test_interface[s]
    /\ event' = [op |-> "mark_target_audio_played", s |-> s]
    /\ target[s] # None
    /\ target_audio_played_state' = SetForSession(target_audio_played_state, s, TRUE)
    /\ UNCHANGED <<cfg, user_id, url_params_state, test_cases_state,
                   current_page_state, results_state, ref_audio_played_state,
                   prolific_pid, id_input_section, test_interface, reference, reference_visible,
                   target, submit_score, redirect, results_dir, writes, loads,
                   sampled_cases>>

\* failed writes of one completion explored in one run
MaxWriteFailures == 1

\* what open() and json.dump of lines 269-270 can do when run_test comes to
\* them: the bundle is written; os.makedirs or open() raises (the directory
\* named by a user_id with "/" is missing, ...) and the results directory is
\* as it was; or the file system refuses the write after open(filename, "w")
\* has created or emptied the file (the disk is full, ...), and the file is
\* left with a beginning of the JSON text, which is no JSON document: an
\* earlier bundle of that name is gone, and the file is listed by glob.
\* Cut-short files of every length are one content here.
WriteOutcomes(reaches_write, failed_before) ==
    IF reaches_write /\ failed_before < MaxWriteFailures
    THEN {"written", "open_raised", "cut_short"}
    ELSE {"written"}

\* submit_score.click -> run_test (lines 639-646): the Submit button of the
\* test interface with the selected score and editing score.  A click can
\* be queued while an earlier one is still being handled, so the handler
\* also runs after the button has been hidden by the call before it.  When
\* the call raises, after the record was appended at line 252, no output is
\* applied and the record stays in the list the session holds.
RunTest(s, naturalness_score, editing_score) ==
    /\ test_interface[s]
    /\ \E outcome \in WriteOutcomes(
            run_test(user_id[s], naturalness_score,
                     ref_audio_played_state[s], target_audio_played_state[s],
                     editing_score, test_cases_state[s],
                     current_page_state[s], results_state[s],
                     url_params_state[s]).write,
            Len(results_state[s]) - current_page_state[s]) :
        LET out == run_test(user_id[s], naturalness_score,
                            ref_audio_played_state[s], target_audio_played_state[s],
                            editing_score, test_cases_state[s],
                            current_page_state[s], results_state[s],
                            url_params_state[s])
            applied == ~out.raised /\ outcome = "written"
        IN  /\ event' = IF outcome = "written"
                        THEN [op |-> "run_test", s |-> s,
                              naturalness_score |-> naturalness_score,
                              editing_score |-> editing_score]
                        ELSE [op |-> "run_test", s |-> s,
                              naturalness_score |-> naturalness_score,
                              editing_score |-> editing_score,
                              raised |-> "OSError"]
            /\ results_state' = SetForSession(results_state, s, out.results)
            /\ results_dir' =
                    IF out.write /\ outcome = "written"
                    THEN WriteResults(results_dir, user_id[s], out.results)
                    ELSE IF outcome = "cut_short"
                    THEN (ResultsFile(user_id[s]) :> [cut_short |-> TRUE])
                         @@ results_dir
                    ELSE results_dir
            /\ writes' = IF out.write /\ outcome = "written"
                         THEN SetForSession(writes, s, writes[s] + 1)
                         ELSE writes
            /\ IF applied
               THEN /\ test_cases_state' = SetForSession(test_cases_state, s, out.test_cases)
                    /\ current_page_state' = SetForSession(current_page_state, s, out.current_page)
                    /\ ref_audio_played_state' =
                         SetForSession(ref_audio_played_state, s, out.ref_audio_played)
                    /\ target_audio_played_state' =
                         SetForSession(target_audio_played_state, s, out.target_audio_played)
                    /\ reference' = Updated(reference, s, out.reference)
                    /\ reference_visible' = Shown(reference_visible, s, out.reference)
                    /\ target' = Updated(target, s, out.target)
                    /\ submit_score' = SetForSession(submit_score, s, out.submit_score)
                    /\ redirect' = IF out.redirect
                                   THEN SetForSession(redirect, s, TRUE)
                                   ELSE redirect
               ELSE UNCHANGED <<test_cases_state, current_page_state,
                                ref_audio_played_state, target_audio_played_state,
                                reference, reference_visible, target, submit_score, redirect>>
    /\ UNCHANGED <<cfg, user_id, url_params_state, prolific_pid,
                   id_input_section, test_interface, loads, sampled_cases>>

\* One participant at a time, with every input of the sets above
Next ==
    \/ \E params \in UrlParams : Load("s1", params)
    \/ \E email_input \in EmailInputs : StartTest("s1", email_input)
    \/ MarkRefAudioPlayed("s1")
    \/ MarkTargetAudioPlayed("s1")
    \/ \E naturalness_score \in ScoreInputs, editing_score \in EditingInputs :
            RunTest("s1", naturalness_score, editing_score)

Spec == Init /\ [][Next]_vars

\* One participant whose result file may fail to be written
NextPersistFailure ==
    \/ \E params \in UrlParams : Load("s1", params)
    \/ StartTest("s1", EmailGood)
    \/ MarkRefAudioPlayed("s1")
    \/ MarkTargetAudioPlayed("s1")
    \/ \E naturalness_score \in SharedScoreInputs :
            RunTest("s1", naturalness_score, None)

SpecPersistFailure == Init /\ [][NextPersistFailure]_vars

\* a score above the scale of the comparison trials (-3..3) and inside the
\* scale of the quality trials (1..5)
ScoreAboveComparisonScale == <<"4", ":", " ", "G">>

\* One participant who also submits that score
NextOutOfScale ==
    \/ \E params \in UrlParams : Load("s1", params)
    \/ StartTest("s1", EmailGood)
    \/ MarkRefAudioPlayed("s1")
    \/ MarkTargetAudioPlayed("s1")
    \/ \E naturalness_score \in SharedScoreInputs \cup {ScoreAboveComparisonScale} :
            RunTest("s1", naturalness_score, None)

SpecOutOfScale == Init /\ [][NextOutOfScale]_vars

\* Arrival and identification only, of several participants and with every
\* kind of link
NextIdentify ==
    \/ \E s \in Sessions, params \in UrlParams \cup {BlankPidParams} : Load(s, params)
    \/ \E s \in Sessions, email_input \in EmailInputs : StartTest(s, email_input)

SpecIdentify == Init /\ [][NextIdentify]_vars

\* Several participants served by the one process; their events interleave
\* in any order.  Each enters a well-formed identity and picks an offered
\* score.
NextShared ==
    \/ \E s \in Sessions, params \in UrlParams : Load(s, params)
    \/ \E s \in Sessions : StartTest(s, EmailGood)
    \/ \E s \in Sessions : MarkRefAudioPlayed(s)
    \/ \E s \in Sessions : MarkTargetAudioPlayed(s)
    \/ \E s \in Sessions, naturalness_score \in SharedScoreInputs :
            RunTest(s, naturalness_score, None)

SpecShared == Init /\ [][NextShared]_vars

\* ---------------------------------------------------------------------
\* TestCasesSampler.sample_test_cases on its own, over a family of catalogs
\* ---------------------------------------------------------------------

\* items of the largest comparison group
MaxGroupLen == 3

\* largest sample_size_per_test
MaxSampleSize == 2

\* the i-th item of comparison group g
GroupItem(type, g, i) == Trial(type, None, <<"item", g, i>>, FALSE)

\* comparison group g with its first n items
Group(type, g, n) == [i \in 1..n |-> GroupItem(type, g, i)]

\* test_cases.json contents: a test type with two comparison groups and one
\* with a single group, of every size up to MaxGroupLen
SamplerCatalogs ==
    {<<[test |-> "CMOS",
        system_pairs |-> <<Group("CMOS", 1, k1), Group("CMOS", 2, k2)>>],
       [test |-> "QMOS",
        system_pairs |-> <<Group("QMOS", 3, k3)>>]>> :
        k1 \in 0..MaxGroupLen, k2 \in 0..MaxGroupLen, k3 \in 0..1}

\* TestCasesSampler.__init__ (utils.py lines 28-31)
InitSampler ==
    /\ cfg \in {[test_cases |-> catalog,
                 sample_size_per_test |-> n,
                 instruction_pages |-> NoList,
                 attention_checks |-> NoList] :
                    catalog \in SamplerCatalogs, n \in 0..MaxSampleSize}
    /\ user_id = [s \in Sessions |-> None]
    /\ url_params_state = [s \in Sessions |-> <<>>]
    /\ test_cases_state = [s \in Sessions |-> <<>>]
    /\ current_page_state = [s \in Sessions |-> 0]
    /\ results_state = [s \in Sessions |-> <<>>]
    /\ ref_audio_played_state = [s \in Sessions |-> FALSE]
    /\ target_audio_played_state = [s \in Sessions |-> FALSE]
    /\ prolific_pid = [s \in Sessions |-> <<>>]
    /\ id_input_section = [s \in Sessions |-> TRUE]
    /\ test_interface = [s \in Sessions |-> FALSE]
    /\ reference = [s \in Sessions |-> None]
    /\ reference_visible = [s \in Sessions |-> TRUE]
    /\ target = [s \in Sessions |-> None]
    /\ submit_score = [s \in Sessions |-> TRUE]
    /\ redirect = [s \in Sessions |-> FALSE]
    /\ results_dir = <<>>
    /\ writes = [s \in Sessions |-> 0]
    /\ loads = 0
    /\ event = [op |-> "none", s |-> "none"]
    /\ sampled_cases = NoList

\* one call of case_sampler.sample_test_cases()
SampleTestCases ==
    /\ sampled_cases' \in sample_test_cases(cfg.test_cases, cfg.sample_size_per_test)
    /\ event' = [op |-> "sample_test_cases", s |-> "none"]
    /\ UNCHANGED <<cfg, user_id, url_params_state, test_cases_state,
                   current_page_state, results_state, ref_audio_played_state,
                   target_audio_played_state, prolific_pid, id_input_section,
                   test_interface, reference, reference_visible, target, submit_score, redirect,
                   results_dir, writes, loads>>

NextSampler == SampleTestCases

SpecSampler == InitSampler /\ [][NextSampler]_vars

\* ---------------------------------------------------------------------
\* MOSTest.sample_test_cases_for_session on its own (main2.py and main.py),
\* over a family of configurations
\* ---------------------------------------------------------------------

\* items of the largest comparison group of these configurations
MaxSessionGroupLen == 4

\* an entry of cfg.instructions
Instruction(type) ==
    Trial(type, <<"audios/instruction.wav">>, <<"audios/instruction.wav">>, FALSE)

\* the i-th entry of cfg.attention_checks
AttentionCheck(i) ==
    Trial("attention", <<"attention", i>>, <<"attention", i>>, FALSE)

\* catalogs with one CMOS group and one QMOS group
SessionCatalogs ==
    {<<[test |-> "CMOS", system_pairs |-> <<Group("CMOS", 1, k1)>>],
       [test |-> "QMOS", system_pairs |-> <<Group("QMOS", 2, k2)>>]>> :
        k1 \in 0..2, k2 \in 0..MaxSessionGroupLen}

\* cfg.instructions: absent, empty, or pages of several types
InstructionLists ==
    {NoList, <<>>,
     <<Instruction("cmos_instruction")>>,
     <<Instruction("qmos_instruction"), Instruction("smos_instruction")>>,
     <<Instruction("nmos_instruction"), Instruction("cmos_instruction")>>}

\* cfg.attention_checks: absent, or a pool of 2, 3 or 4 checks
AttentionPools ==
    {NoList} \cup {[i \in 1..n |-> AttentionCheck(i)] : n \in 2..4}

\* the state of the sessions before any browser connects
IdleSessions ==
    /\ user_id = [s \in Sessions |-> None]
    /\ url_params_state = [s \in Sessions |-> <<>>]
    /\ test_cases_state = [s \in Sessions |-> <<>>]
    /\ current_page_state = [s \in Sessions |-> 0]
    /\ results_state = [s \in Sessions |-> <<>>]
    /\ ref_audio_played_state = [s \in Sessions |-> FALSE]
    /\ target_audio_played_state = [s \in Sessions |-> FALSE]
    /\ prolific_pid = [s \in Sessions |-> <<>>]
    /\ id_input_section = [s \in Sessions |-> TRUE]
    /\ test_interface = [s \in Sessions |-> FALSE]
    /\ reference = [s \in Sessions |-> None]
    /\ reference_visible = [s \in Sessions |-> TRUE]
    /\ target = [s \in Sessions |-> None]
    /\ submit_score = [s \in Sessions |-> TRUE]
    /\ redirect = [s \in Sessions |-> FALSE]
    /\ results_dir = <<>>
    /\ writes = [s \in Sessions |-> 0]
    /\ loads = 0
    /\ event = [op |-> "none", s |-> "none"]

\* MOSTest.__init__ (main2.py lines 18-32) over the configurations above;
\* the sample size is below or at the size of the largest group
InitSession ==
    /\ cfg \in {[test_cases |-> catalog,
                 sample_size_per_test |-> n,
                 instruction_pages |-> instruction_pages,
                 attention_checks |-> attention_checks] :
                    catalog \in SessionCatalogs,
                    n \in {1, MaxSessionGroupLen},
                    instruction_pages \in InstructionLists,
                    attention_checks \in AttentionPools}
    /\ IdleSessions
    /\ sampled_cases = NoList

\* one call of test.sample_test_cases_for_session() of main2.py; it has no
\* result when random.sample raises
SampleForSession ==
    /\ sampled_cases = NoList
    /\ sampled_cases' \in sample_test_cases_for_session(
            cfg.test_cases, cfg.sample_size_per_test,
            cfg.instruction_pages, cfg.attention_checks)
    /\ event' = [op |-> "sample_test_cases_for_session", s |-> "none"]
    /\ UNCHANGED <<cfg, user_id, url_params_state, test_cases_state,
                   current_page_state, results_state, ref_audio_played_state,
                   target_audio_played_state, prolific_pid, id_input_section,
                   test_interface, reference, reference_visible, target, submit_score, redirect,
                   results_dir, writes, loads>>

\* one call of test.sample_test_cases_for_session() of main.py
SampleForSessionMain ==
    /\ sampled_cases = NoList
    /\ sampled_cases' \in sample_test_cases_for_session_main(
            cfg.test_cases, cfg.sample_size_per_test)
    /\ event' = [op |-> "sample_test_cases_for_session_main", s |-> "none"]
    /\ UNCHANGED <<cfg, user_id, url_params_state, test_cases_state,
                   current_page_state, results_state, ref_audio_played_state,
                   target_audio_played_state, prolific_pid, id_input_section,
                   test_interface, reference, reference_visible, target, submit_score, redirect,
                   results_dir, writes, loads>>

NextSession ==
    \/ SampleForSession
    \/ SampleForSessionMain

SpecSession == InitSession /\ [][NextSession]_vars

\* ---------------------------------------------------------------------
\* analysis/analysis.py: the offline analyzer of the results directory.
\* The audio path of an attention record is kept by characters here, since
\* the analyzer reads the expected score out of the file name.  The
\* confidence interval of a system is not modelled.
\* ---------------------------------------------------------------------

TypeError == <<"TypeError">>

\* the part of text s after the last occurrence of character c (all of s
\* without one): os.path.basename for "/", split("_")[-1] for "_"
RECURSIVE AfterLast(_, _)
AfterLast(s, c) ==
    IF \E i \in 1..Len(s) : s[i] = c THEN AfterLast(Tail(s), c) ELSE s

\* os.path.splitext(name)[0] of a file name without directories: the text
\* before the last dot, unless only dots precede that dot
SplitExtRoot(name) ==
    LET dots == {i \in 1..Len(name) : name[i] = "."}
    IN  IF dots = {} THEN name
        ELSE LET last == CHOOSE i \in dots : \A j \in dots : j <= i
             IN  IF \A j \in 1..(last - 1) : name[j] = "." THEN name
                 ELSE SubSeq(name, 1, last - 1)

\* expected_score (line 16): TypeError for a path of None, ValueError when
\* the last "_" field of the file name is not an integer
ExpectedScore(audio_path) ==
    IF audio_path = None THEN TypeError
    ELSE PyInt(AfterLast(SplitExtRoot(AfterLast(audio_path, "/")), "_"))

\* a variant that accepts every bundle
AttentionChecksSkipped(results) == "True"

\* check_file_attention_checks (lines 10-22): "True", "False", or the
\* exception raised at the first attention record whose expected score
\* cannot be read, when no earlier one has a wrong score
RECURSIVE check_file_attention_checks(_)
check_file_attention_checks(results) ==
    IF results = <<>> THEN "True"
    ELSE IF Head(results).test_type # "attention"
    THEN check_file_attention_checks(Tail(results))
    ELSE LET expected_score == ExpectedScore(Head(results).reference_audio)
             actual_score == Head(results).score
         IN  IF ~IsInt(expected_score) THEN expected_score[1]
             ELSE IF expected_score # actual_score THEN "False"
             ELSE check_file_attention_checks(Tail(results))

\* lines 48-52: the CMOS and SMOS records of a file, each with the
\* participant and the file it came from
RECURSIVE ValidResultsOf(_, _, _)
ValidResultsOf(results, participant_id, file_path) ==
    IF results = <<>> THEN <<>>
    ELSE (IF Head(results).test_type \in {"CMOS", "SMOS"}
          THEN <<[participant_id |-> participant_id, file_path |-> file_path]
                 @@ Head(results)>>
          ELSE <<>>)
         \o ValidResultsOf(Tail(results), participant_id, file_path)

\* json.load answers a dict for the content of the file: the text is a JSON
\* object, neither a JSON list (utterance_results.json) nor a text cut
\* short, on which json.load raises
IsJsonObject(data) ==
    "json_list" \notin DOMAIN data /\ "cut_short" \notin DOMAIN data

\* the body of the loop over the files (lines 37-61): what one file adds
\* to valid_results; a file that fails the checks, or on which they raise,
\* adds nothing, and neither does a file on which json.load or data.get
\* raises; a dict without "results" (mos_results.json) has no records
FileResults(directory, file_path) ==
    LET data == directory[file_path]
        results == IF "results" \in DOMAIN data THEN data.results ELSE <<>>
        participant_id ==
            IF "user_id" \in DOMAIN data THEN data.user_id ELSE file_path
    IN  IF ~IsJsonObject(data) THEN <<>>
        ELSE IF check_file_attention_checks(results) = "True"
        THEN ValidResultsOf(results, participant_id, file_path)
        ELSE <<>>

\* the orders in which glob.glob may list the files
FileOrders(files) ==
    {order \in [1..Cardinality(files) -> files] :
        \A i, j \in 1..Cardinality(files) : order[i] = order[j] => i = j}

RECURSIVE ResultsInOrder(_, _)
ResultsInOrder(directory, order) ==
    IF order = <<>> THEN <<>>
    ELSE FileResults(directory, Head(order))
         \o ResultsInOrder(directory, Tail(order))

\* load_and_filter_json_files (lines 24-71): the ways the call can end.
\* Without a listed *.json file it raises FileNotFoundError (lines 28-29);
\* total_files counts the files on which data.get has answered, and with
\* none of those the success rate of line 67 raises ZeroDivisionError;
\* otherwise it returns a list, one per listing order.
load_and_filter_json_files(directory) ==
    LET json_files == Glob(directory, <<".", "j", "s", "o", "n">>)
        total_files ==
            Cardinality({f \in json_files : IsJsonObject(directory[f])})
    IN  IF json_files = {}
        THEN {[raised |-> "FileNotFoundError", returned |-> <<>>]}
        ELSE IF total_files = 0
        THEN {[raised |-> "ZeroDivisionError", returned |-> <<>>]}
        ELSE {[raised |-> "none", returned |-> ResultsInOrder(directory, order)] :
                 order \in FileOrders(json_files)}

\* lines 93-97: the system a CMOS record counts for
CmosSystem(result) ==
    IF result.swap THEN result.ref_system ELSE result.target_system

\* a variant that takes the score as stored
StoredScore(result) == IntOf(result.score)

\* lines 91-95: the score a CMOS record counts with
CorrectedScore(result) ==
    IF result.swap THEN 0 - IntOf(result.score) ELSE IntOf(result.score)

\* lines 99-100: the record is appended to the list of its system
Counted(result) == result.test_type = "CMOS" /\ Truthy(CmosSystem(result))

\* '-score' (line 95) or np.mean (line 78) raises on a score of None
CmosRaises(results) ==
    \E i \in 1..Len(results) :
        /\ results[i].test_type = "CMOS"
        /\ ~IsInt(results[i].score)
        /\ results[i].swap \/ Truthy(results[i].target_system)

\* cmos_data (lines 85-100): system -> its scores, in the order of results
CmosData(results) ==
    LET counted == SelectSeq(results, Counted)
        systems == {CmosSystem(counted[i]) : i \in 1..Len(counted)}
        of(system) == SelectSeq(counted, LAMBDA r : CmosSystem(r) = system)
    IN  [system \in systems |->
            [i \in 1..Len(of(system)) |-> CorrectedScore(of(system)[i])]]

RECURSIVE SumOf(_)
SumOf(data) == IF data = <<>> THEN 0 ELSE Head(data) + SumOf(Tail(data))

\* np.mean(data) (line 78): the quotient sum / len, kept exact as the pair
Mean(data) == <<SumOf(data), Len(data)>>

\* analyze_cmos (lines 83-113) when it does not raise
analyze_cmos(results) ==
    [system \in DOMAIN CmosData(results) |->
        [mean      |-> Mean(CmosData(results)[system]),
         n_samples |-> Len(CmosData(results)[system])]]

\* analyze_smos (lines 115-151) when it does not raise: as analyze_cmos on
\* the SMOS records, with 3 added to the mean (line 140)
analyze_smos(results) ==
    LET counted == SelectSeq(results, LAMBDA r : /\ r.test_type = "SMOS"
                                                 /\ Truthy(CmosSystem(r)))
        systems == {CmosSystem(counted[i]) : i \in 1..Len(counted)}
        of(system) == SelectSeq(counted, LAMBDA r : CmosSystem(r) = system)
        scores(system) ==
            [i \in 1..Len(of(system)) |-> CorrectedScore(of(system)[i])]
    IN  [system \in systems |->
            [mean      |-> <<SumOf(scores(system)) + 3 * Len(scores(system)),
                            Len(scores(system))>>,
             n_samples |-> Len(scores(system))]]

\* the keys of a dict in insertion order: the elements of a list in the
\* order of their first occurrence
RECURSIVE FirstSeen(_, _)
FirstSeen(keys, seen) ==
    IF keys = <<>> THEN <<>>
    ELSE IF Head(keys) \in seen THEN FirstSeen(Tail(keys), seen)
    ELSE <<Head(keys)>> \o FirstSeen(Tail(keys), seen \cup {Head(keys)})

\* ---------------------------------------------------------------------
\* The analyzer run on a results directory: main() of analysis.py calls
\* load_and_filter_json_files, analyze_cmos and analyze_smos, writes
\* tts_results.csv, calls analyze_per_utterance and writes
\* utterance_results.json.
\* ---------------------------------------------------------------------

\* records per bundle of the first file
MaxBundleLen == 2

\* a response record as run_test stores it; the reference and the target
\* are the same utterance spoken by two systems
Response(test_type, reference_audio, ref_system, target_system, swap, score) ==
    [test_type |-> test_type, reference_audio |-> reference_audio,
     target_audio |-> <<"B", "/", "u", ".", "w", "a", "v">>,
     ref_system |-> ref_system,
     target_system |-> target_system, swap |-> swap, score |-> score]

\* audios/c_4.wav, an attention audio whose expected score is 4
AttentionAudio == <<"a", "/", "c", "_", "4", ".", "w", "a", "v">>

\* an attention audio with no score in its name
UnnumberedAudio == <<"a", "/", "c", ".", "w", "a", "v">>

AttentionResponse(reference_audio, score) ==
    Response("attention", reference_audio, None, None, FALSE, score)

CmosResponse(swap, score) ==
    Response("CMOS", <<"A", "/", "u", ".", "w", "a", "v">>,
             <<"sysA">>, <<"sysB">>, swap, score)

SmosResponse(swap, score) ==
    Response("SMOS", <<"A", "/", "u", ".", "w", "a", "v">>,
             <<"sysA">>, <<"sysB">>, swap, score)

\* a system whose name holds a space, and the system that has an
\* underscore in its place
SpacedSystem == <<"s", "y", "s", " ", "C">>

UnderscoredSystem == <<"s", "y", "s", "_", "C">>

\* the records bundles are made of: CMOS records with and without swap (a
\* score of None is what run_test stores for a submission without a
\* score), one without a target system, SMOS records with and without
\* swap and one without a score, a CMOS and an SMOS record of the system
\* with a space in its name, a QMOS record, and attention records with the
\* expected score, another score, and a file name without a score
AnalysisRecords ==
    {CmosResponse(swap, score) :
        swap \in BOOLEAN, score \in {PyIntValue(2), PyIntValue(0 - 1), None}}
    \cup {Response("CMOS", <<"A", "/", "u", ".", "w", "a", "v">>,
                   <<"sysA">>, None, FALSE, PyIntValue(1)),
          SmosResponse(FALSE, PyIntValue(1)),
          SmosResponse(TRUE, PyIntValue(1)),
          SmosResponse(FALSE, None),
          Response("CMOS", <<"A", "/", "u", ".", "w", "a", "v">>,
                   <<"sysA">>, SpacedSystem, FALSE, PyIntValue(2)),
          Response("SMOS", <<"A", "/", "u", ".", "w", "a", "v">>,
                   <<"sysA">>, SpacedSystem, FALSE, PyIntValue(1)),
          Response("QMOS", None, None, <<"sysB">>, FALSE, PyIntValue(3)),
          AttentionResponse(AttentionAudio, PyIntValue(4)),
          AttentionResponse(AttentionAudio, PyIntValue(2)),
          AttentionResponse(UnnumberedAudio, PyIntValue(4))}

\* the bundles of the first participant: every list of records up to the
\* bound
FirstBundles ==
    UNION {[1..n -> AnalysisRecords] : n \in 0..MaxBundleLen}

\* the bundles of the second participant
OtherBundles ==
    {<<AttentionResponse(AttentionAudio, PyIntValue(4)), CmosResponse(TRUE, PyIntValue(2))>>,
     <<AttentionResponse(AttentionAudio, PyIntValue(2)), CmosResponse(FALSE, PyIntValue(2))>>,
     <<CmosResponse(FALSE, PyIntValue(0 - 1)), SmosResponse(FALSE, PyIntValue(1))>>,
     <<CmosResponse(TRUE, PyIntValue(2)), SmosResponse(TRUE, PyIntValue(1))>>,
     <<Response("CMOS", <<"A", "/", "u", ".", "w", "a", "v">>,
                <<"sysA">>, UnderscoredSystem, FALSE, PyIntValue(0 - 1)),
       Response("SMOS", <<"A", "/", "u", ".", "w", "a", "v">>,
                <<"sysA">>, UnderscoredSystem, FALSE, PyIntValue(1))>>}

FirstParticipant == <<"x", "1">>

OtherParticipant == <<"x", "2">>

\* output_file of save_results_to_csv (line 345), in the results directory
CsvFile ==
    <<"t", "t", "s", "_", "r", "e", "s", "u", "l", "t", "s", ".", "c", "s", "v">>

\* output_file of save_utterance_results_to_json (line 350), in the results
\* directory
UtteranceResultsFile ==
    <<"u", "t", "t", "e", "r", "a", "n", "c", "e">> \o ResultsSuffix

\* results directories: empty, the first participant's file alone or with
\* the second participant's file, and one that holds nothing but the
\* per-utterance file of an earlier analysis
AnalysisDirectories ==
    {<<>>, UtteranceResultsFile :> [json_list |-> <<>>]}
    \cup {WriteResults(<<>>, FirstParticipant, b) : b \in FirstBundles}
    \cup {WriteResults(WriteResults(<<>>, FirstParticipant, b),
                       OtherParticipant, c) :
              b \in FirstBundles, c \in OtherBundles}

\* the analyzer runs offline, without a MOSTest object or a session
NoConfig ==
    [test_cases |-> <<>>, sample_size_per_test |-> 1,
     instruction_pages |-> NoList, attention_checks |-> NoList]

InitAnalysis ==
    /\ cfg = NoConfig
    /\ user_id = [s \in Sessions |-> None]
    /\ url_params_state = [s \in Sessions |-> <<>>]
    /\ test_cases_state = [s \in Sessions |-> <<>>]
    /\ current_page_state = [s \in Sessions |-> 0]
    /\ results_state = [s \in Sessions |-> <<>>]
    /\ ref_audio_played_state = [s \in Sessions |-> FALSE]
    /\ target_audio_played_state = [s \in Sessions |-> FALSE]
    /\ prolific_pid = [s \in Sessions |-> <<>>]
    /\ id_input_section = [s \in Sessions |-> TRUE]
    /\ test_interface = [s \in Sessions |-> FALSE]
    /\ reference = [s \in Sessions |-> None]
    /\ reference_visible = [s \in Sessions |-> TRUE]
    /\ target = [s \in Sessions |-> None]
    /\ submit_score = [s \in Sessions |-> TRUE]
    /\ redirect = [s \in Sessions |-> FALSE]
    /\ results_dir \in AnalysisDirectories
    /\ writes = [s \in Sessions |-> 0]
    /\ loads = 0
    /\ event = [op |-> "none", s |-> "none"]
    /\ sampled_cases = NoList

\* an analyzer is started when no run is under way (lines 356-361), that is
\* before the first run, after a run has ended with its last step, and
\* after a run has ended with an exception
AnalyzerIdle ==
    IF event.op \in {"none", "save_utterance_results_to_json",
                     "qmos_analysis_main"}
    THEN TRUE
    ELSE event.raised # "none"

\* valid_results = load_and_filter_json_files(directory_path) (line 328),
\* the first step of a run of main
LoadAndFilter ==
    /\ AnalyzerIdle
    /\ \E outcome \in load_and_filter_json_files(results_dir) :
          event' = [op |-> "load_and_filter_json_files", s |-> "none"]
                   @@ outcome
    /\ UNCHANGED <<cfg, user_id, url_params_state, test_cases_state,
                   current_page_state, results_state, ref_audio_played_state,
                   target_audio_played_state, prolific_pid, id_input_section,
                   test_interface, reference, reference_visible, target, submit_score, redirect,
                   results_dir, writes, loads, sampled_cases>>

\* cmos_results = analyze_cmos(valid_results) (line 340)
AnalyzeCmos ==
    /\ event.op = "load_and_filter_json_files"
    /\ event.raised = "none"
    /\ event' = IF CmosRaises(event.returned)
                THEN [op |-> "analyze_cmos", s |-> "none",
                      results |-> event.returned,
                      raised |-> "TypeError", returned |-> <<>>]
                ELSE [op |-> "analyze_cmos", s |-> "none",
                      results |-> event.returned,
                      raised |-> "none",
                      returned |-> analyze_cmos(event.returned)]
    /\ UNCHANGED <<cfg, user_id, url_params_state, test_cases_state,
                   current_page_state, results_state, ref_audio_played_state,
                   target_audio_played_state, prolific_pid, id_input_section,
                   test_interface, reference, reference_visible, target, submit_score, redirect,
                   results_dir, writes, loads, sampled_cases>>

\* smos_results = analyze_smos(valid_results) (line 341); '-score' (line
\* 127) or np.mean (line 78) raises on a score of None
AnalyzeSmos ==
    /\ event.op = "analyze_cmos"
    /\ event.raised = "none"
    /\ event' = IF \E i \in 1..Len(event.results) :
                      /\ event.results[i].test_type = "SMOS"
                      /\ ~IsInt(event.results[i].score)
                      /\ \/ event.results[i].swap
                         \/ Truthy(event.results[i].target_system)
                THEN [op |-> "analyze_smos", s |-> "none",
                      results |-> event.results,
                      cmos_results |-> event.returned,
                      raised |-> "TypeError", returned |-> <<>>]
                ELSE [op |-> "analyze_smos", s |-> "none",
                      results |-> event.results,
                      cmos_results |-> event.returned,
                      raised |-> "none",
                      returned |-> analyze_smos(event.results)]
    /\ UNCHANGED <<cfg, user_id, url_params_state, test_cases_state,
                   current_page_state, results_state, ref_audio_played_state,
                   target_audio_played_state, prolific_pid, id_input_section,
                   test_interface, reference, reference_visible, target, submit_score, redirect,
                   results_dir, writes, loads, sampled_cases>>

\* print_results and save_results_to_csv (lines 344-345, 187-213): the
\* file tts_results.csv is written into the results directory, a row per
\* system of cmos_results and then of smos_results, each dict in the order
\* its systems were first counted.  The bounds of the confidence interval
\* are not modelled.
SaveResultsToCsv ==
    /\ event.op = "analyze_smos"
    /\ event.raised = "none"
    /\ LET rows(test_type, analysis) ==
               LET counted == SelectSeq(event.results,
                                        LAMBDA r : /\ r.test_type = test_type
                                                   /\ Truthy(CmosSystem(r)))
                   systems == FirstSeen([i \in 1..Len(counted) |->
                                            CmosSystem(counted[i])], {})
               IN  [k \in 1..Len(systems) |->
                       [test_type |-> test_type, system |-> systems[k],
                        mean      |-> analysis[systems[k]].mean,
                        n_samples |-> analysis[systems[k]].n_samples]]
       IN  results_dir' =
               (CsvFile :> [csv |-> rows("CMOS", event.cmos_results)
                                    \o rows("SMOS", event.returned)])
               @@ results_dir
    /\ event' = [op |-> "save_results_to_csv", s |-> "none",
                 results |-> event.results, raised |-> "none"]
    /\ UNCHANGED <<cfg, user_id, url_params_state, test_cases_state,
                   current_page_state, results_state, ref_audio_played_state,
                   target_audio_played_state, prolific_pid, id_input_section,
                   test_interface, reference, reference_visible, target, submit_score, redirect,
                   writes, loads, sampled_cases>>

\* the records analyze_per_utterance looks at (line 222)
Compared(result) == result.test_type \in {"CMOS", "SMOS"}

\* the first loop of analyze_per_utterance (lines 221-247) from record i
\* on, with the value the local variable score holds (Unassigned before
\* line 238 has run once): the exception it ends with, or the scores it has appended,
\* each with the utterance and the system it is appended for.  'score =
\* -score' (line 231) reads the variable before line 238 assigns the score
\* of this record; os.path.basename (line 236) raises on a path of None.
Unassigned == <<"unassigned">>

RECURSIVE PerUtteranceLoop(_, _, _, _)
PerUtteranceLoop(results, i, score, credits) ==
    IF i > Len(results) THEN [raised |-> "none", credited |-> credits]
    ELSE LET result == results[i]
             target_system == CmosSystem(result)
             audio_path == IF result.swap THEN result.reference_audio
                           ELSE result.target_audio
         IN  IF ~Compared(result)
             THEN PerUtteranceLoop(results, i + 1, score, credits)
             ELSE IF result.swap /\ score = Unassigned
             THEN [raised |-> "UnboundLocalError", credited |-> <<>>]
             ELSE IF result.swap /\ ~IsInt(score)
             THEN [raised |-> "TypeError", credited |-> <<>>]
             ELSE IF audio_path = None
             THEN [raised |-> "TypeError", credited |-> <<>>]
             ELSE IF ~Truthy(target_system)
             THEN PerUtteranceLoop(results, i + 1, result.score, credits)
             ELSE PerUtteranceLoop(results, i + 1, result.score,
                        Append(credits,
                               [utterance |-> SplitExtRoot(AfterLast(audio_path, "/")),
                                test_type |-> result.test_type,
                                system |-> target_system,
                                score |-> result.score]))

\* analyze_per_utterance (lines 216-297): the exception it ends with, or
\* what the first loop has appended (credited) and the dict it returns, as
\* the list of its values in insertion order; the dict of the systems of an
\* utterance is its keys in insertion order (order) and the value under
\* each (systems).  With fewer than two systems
\* it returns an empty dict (lines 255-257).  An utterance is kept when it
\* has scores for every system and, for each of them, both CMOS and SMOS
\* scores; the systems of an utterance are gone through in insertion order
\* up to the first one that lacks a kind of score, and np.mean raises on a
\* score of None before that.
analyze_per_utterance(results) ==
    LET loop == PerUtteranceLoop(results, 1, Unassigned, <<>>)
        credits == loop.credited
        all_systems == {credits[i].system : i \in 1..Len(credits)}
        utterances ==
            FirstSeen([i \in 1..Len(credits) |-> credits[i].utterance], {})
        of(u) == SelectSeq(credits, LAMBDA c : c.utterance = u)
        systems_data(u) ==
            FirstSeen([i \in 1..Len(of(u)) |-> of(u)[i].system], {})
        given(u, system, test_type) ==
            SelectSeq(of(u), LAMBDA c : /\ c.system = system
                                        /\ c.test_type = test_type)
        scores(u, system, test_type) ==
            [i \in 1..Len(given(u, system, test_type)) |->
                IntOf(given(u, system, test_type)[i].score)]
        lacking(u, system) ==
            \/ given(u, system, "CMOS") = <<>>
            \/ given(u, system, "SMOS") = <<>>
        unaveraged(u, system) ==
            \E i \in 1..Len(of(u)) :
                of(u)[i].system = system /\ ~IsInt(of(u)[i].score)
        stops(u) ==
            {k \in 1..Len(systems_data(u)) :
                \/ lacking(u, systems_data(u)[k])
                \/ unaveraged(u, systems_data(u)[k])}
        outcome(u) ==
            IF Len(systems_data(u)) # Cardinality(all_systems) THEN "skipped"
            ELSE IF stops(u) = {} THEN "valid"
            ELSE LET k == CHOOSE k \in stops(u) : \A j \in stops(u) : k <= j
                 IN  IF lacking(u, systems_data(u)[k]) THEN "incomplete"
                     ELSE "TypeError"
        entry(u) ==
            [utterance |-> u,
             order |-> systems_data(u),
             systems |->
                 [system \in {systems_data(u)[k] : k \in 1..Len(systems_data(u))} |->
                     [averaged_CMOS |-> Mean(scores(u, system, "CMOS")),
                      number_of_CMOS_scores |-> Len(scores(u, system, "CMOS")),
                      averaged_SMOS |->
                          <<SumOf(scores(u, system, "SMOS"))
                                + 3 * Len(scores(u, system, "SMOS")),
                            Len(scores(u, system, "SMOS"))>>,
                      number_of_SMOS_scores |-> Len(scores(u, system, "SMOS"))]]]
        valid == SelectSeq(utterances, LAMBDA u : outcome(u) = "valid")
    IN  IF loop.raised # "none"
        THEN [raised |-> loop.raised, credited |-> <<>>, returned |-> <<>>]
        ELSE IF Cardinality(all_systems) < 2
        THEN [raised |-> "none", credited |-> credits, returned |-> <<>>]
        ELSE IF \E k \in 1..Len(utterances) : outcome(utterances[k]) = "TypeError"
        THEN [raised |-> "TypeError", credited |-> credits, returned |-> <<>>]
        ELSE [raised |-> "none", credited |-> credits,
              returned |-> [k \in 1..Len(valid) |-> entry(valid[k])]]

\* utterance_results = analyze_per_utterance(valid_results) (line 348),
\* reached when the CSV file has been written
AnalyzePerUtterance ==
    /\ event.op = "save_results_to_csv"
    /\ event' = [op |-> "analyze_per_utterance", s |-> "none",
                 results |-> event.results]
                @@ analyze_per_utterance(event.results)
    /\ UNCHANGED <<cfg, user_id, url_params_state, test_cases_state,
                   current_page_state, results_state, ref_audio_played_state,
                   target_audio_played_state, prolific_pid, id_input_section,
                   test_interface, reference, reference_visible, target, submit_score, redirect,
                   results_dir, writes, loads, sampled_cases>>

\* system.replace(' ', '_') (line 308)
SystemKey(system) ==
    [i \in 1..Len(system) |-> IF system[i] = " " THEN "_" ELSE system[i]]

\* the entry of one utterance (lines 304-312) after the first k systems of
\* its dict: a dict from key to value, where the keys of a system begin with
\* its name with every space replaced; a system whose keys are those of an
\* earlier one takes their place
RECURSIVE UtteranceEntry(_, _)
UtteranceEntry(data, k) ==
    IF k = 0 THEN <<"utterance">> :> data.utterance
    ELSE LET system == data.order[k]
             system_data == data.systems[system]
             key(name) == SystemKey(system) \o <<name>>
         IN  (key("_averaged_CMOS") :> system_data.averaged_CMOS)
             @@ (key("_number_of_CMOS_scores") :> system_data.number_of_CMOS_scores)
             @@ (key("_averaged_SMOS") :> system_data.averaged_SMOS)
             @@ (key("_number_of_SMOS_scores") :> system_data.number_of_SMOS_scores)
             @@ UtteranceEntry(data, k - 1)

\* save_utterance_results_to_json (lines 299-323, called at lines 349-350):
\* the file utterance_results.json is written into the results directory,
\* a JSON list with an entry per utterance
save_utterance_results_to_json(utterance_results) ==
    [k \in 1..Len(utterance_results) |->
        UtteranceEntry(utterance_results[k], Len(utterance_results[k].order))]

SaveUtteranceResults ==
    /\ event.op = "analyze_per_utterance"
    /\ event.raised = "none"
    /\ results_dir' =
           (UtteranceResultsFile :>
                [json_list |-> save_utterance_results_to_json(event.returned)])
           @@ results_dir
    /\ event' = [op |-> "save_utterance_results_to_json", s |-> "none",
                 raised |-> "none", returned |-> event.returned]
    /\ UNCHANGED <<cfg, user_id, url_params_state, test_cases_state,
                   current_page_state, results_state, ref_audio_played_state,
                   target_audio_played_state, prolific_pid, id_input_section,
                   test_interface, reference, reference_visible, target, submit_score, redirect,
                   writes, loads, sampled_cases>>

\* main (lines 325-352), a step at a time
NextAnalysis ==
    \/ LoadAndFilter
    \/ AnalyzeCmos
    \/ AnalyzeSmos
    \/ SaveResultsToCsv
    \/ AnalyzePerUtterance
    \/ SaveUtteranceResults

SpecAnalysis == InitAnalysis /\ [][NextAnalysis]_vars

\* ---------------------------------------------------------------------
\* analysis/qmos_analysis.py: the offline analyzer of the QMOS records.
\* A run of main reads the *.json files of the results directory and, when
\* it finds QMOS records, writes mos_results.json into that directory
\* (no output path given).  A quotient is kept exact, as the pair
\* <<numerator, denominator>> in lowest terms; the standard deviation of
\* the box plot metrics is not modelled.
\* ---------------------------------------------------------------------

\* quality_to_score (lines 15-21)
quality_to_score ==
    (<<"b", "a", "d">> :> PyIntValue(1))
    @@ (<<"p", "o", "o", "r">> :> PyIntValue(2))
    @@ (<<"f", "a", "i", "r">> :> PyIntValue(3))
    @@ (<<"g", "o", "o", "d">> :> PyIntValue(4))
    @@ (<<"e", "x", "c", "e", "l", "l", "e", "n", "t">> :> PyIntValue(5))

\* check_file_attention_checks of qmos_analysis.py (lines 10-41): "True",
\* "False", or the exception raised at the first attention record whose
\* expected score cannot be read (a path of None, a file name that does
\* not end in a quality word), when no earlier one has a wrong score
RECURSIVE qmos_check_file_attention_checks(_)
qmos_check_file_attention_checks(results) ==
    IF results = <<>> THEN "True"
    ELSE IF Head(results).test_type # "no_reference_attention"
    THEN qmos_check_file_attention_checks(Tail(results))
    ELSE LET audio_path == Head(results).target_audio
             expected_quality ==
                 AfterLast(SplitExtRoot(AfterLast(audio_path, "/")), "_")
         IN  IF audio_path = None THEN "TypeError"
             ELSE IF expected_quality \notin DOMAIN quality_to_score
             THEN "KeyError"
             ELSE IF quality_to_score[expected_quality] # Head(results).score
             THEN "False"
             ELSE qmos_check_file_attention_checks(Tail(results))

\* the body of the loop over the files (lines 56-111): what one file adds
\* to valid_results, namely its QMOS records when the checks pass.  An
\* empty file, a text that is no JSON document and a JSON list are skipped
\* (lines 62-81), and so is a file on which the checks raise (line 109).
QmosFileResults(directory, file_path) ==
    LET data == directory[file_path]
        results == IF "results" \in DOMAIN data THEN data.results ELSE <<>>
        participant_id ==
            IF "user_id" \in DOMAIN data THEN data.user_id ELSE file_path
        mos == SelectSeq(results, LAMBDA r : r.test_type = "QMOS")
    IN  IF ~IsJsonObject(data) THEN <<>>
        ELSE IF qmos_check_file_attention_checks(results) = "True"
        THEN [i \in 1..Len(mos) |->
                 [participant_id |-> participant_id, file_path |-> file_path]
                 @@ mos[i]]
        ELSE <<>>

RECURSIVE QmosResultsInOrder(_, _)
QmosResultsInOrder(directory, order) ==
    IF order = <<>> THEN <<>>
    ELSE QmosFileResults(directory, Head(order))
         \o QmosResultsInOrder(directory, Tail(order))

\* load_and_filter_json_files of qmos_analysis.py (lines 43-121) when
\* glob.glob lists the files in the given order.  Without a listed *.json
\* file it raises FileNotFoundError (lines 47-48); total_files counts the
\* files that hold a JSON object (line 88), and with none of those the
\* success rate of line 118 raises ZeroDivisionError.
qmos_load_and_filter_json_files(directory, order) ==
    LET json_files == Glob(directory, <<".", "j", "s", "o", "n">>)
        total_files ==
            Cardinality({f \in json_files : IsJsonObject(directory[f])})
    IN  IF json_files = {}
        THEN [raised |-> "FileNotFoundError", returned |-> <<>>]
        ELSE IF total_files = 0
        THEN [raised |-> "ZeroDivisionError", returned |-> <<>>]
        ELSE [raised |-> "none",
              returned |-> QmosResultsInOrder(directory, order)]

RECURSIVE Gcd(_, _)
Gcd(a, b) == IF b = 0 THEN a ELSE Gcd(b, a % b)

\* the quotient num / den (den > 0) in lowest terms
Quotient(num, den) ==
    LET g == Gcd(IF num < 0 THEN 0 - num ELSE num, den)
    IN  <<num \div g, den \div g>>

\* np.percentile(data, q) (lines 131-133) of quotients in ascending order:
\* linear interpolation between the two values around position
\* (len - 1) * q / 100
Percentile(sorted, q) ==
    LET at   == (Len(sorted) - 1) * q
        part == at % 100
        low  == sorted[(at \div 100) + 1]
        high == sorted[IF part = 0 THEN (at \div 100) + 1
                       ELSE (at \div 100) + 2]
    IN  Quotient((100 - part) * low[1] * high[2] + part * high[1] * low[2],
                 100 * low[2] * high[2])

\* data in ascending order
RECURSIVE Ascending(_)
Ascending(data) ==
    IF data = <<>> THEN <<>>
    ELSE LET i == CHOOSE i \in 1..Len(data) :
                      \A j \in 1..Len(data) :
                          data[i][1] * data[j][2] <= data[j][1] * data[i][2]
         IN  <<data[i]>>
             \o Ascending([k \in 1..(Len(data) - 1) |->
                              IF k < i THEN data[k] ELSE data[k + 1]])

\* the sum of quotients, as numerator and denominator
RECURSIVE SumOfQuotients(_)
SumOfQuotients(data) ==
    IF data = <<>> THEN <<0, 1>>
    ELSE LET rest == SumOfQuotients(Tail(data))
         IN  <<Head(data)[1] * rest[2] + rest[1] * Head(data)[2],
               Head(data)[2] * rest[2]>>

\* calculate_boxplot_metrics (lines 123-138), without the key "std"
calculate_boxplot_metrics(data) ==
    IF data = <<>> THEN None
    ELSE LET sorted == Ascending(data)
             total  == SumOfQuotients(data)
         IN  [min       |-> sorted[1],
              q1        |-> Percentile(sorted, 25),
              median    |-> Percentile(sorted, 50),
              q3        |-> Percentile(sorted, 75),
              max       |-> sorted[Len(sorted)],
              mean      |-> Quotient(total[1], total[2] * Len(data)),
              n_samples |-> Len(data)]

\* analyze_mos_by_utterance (lines 140-166): the exception np.mean raises
\* on a score of None (line 157), or per_utterance_averages, as the list of
\* the entries of the dict in insertion order, each with its key, and the
\* metrics of the averages
analyze_mos_by_utterance(results) ==
    LET mos == SelectSeq(results, LAMBDA r : r.test_type = "QMOS")
        utterances ==
            FirstSeen([i \in 1..Len(mos) |-> mos[i].target_audio], {})
        given(u) == SelectSeq(mos, LAMBDA r : r.target_audio = u)
        scores(u) == [i \in 1..Len(given(u)) |-> IntOf(given(u)[i].score)]
        per_utterance_averages ==
            [k \in 1..Len(utterances) |->
                [utterance     |-> utterances[k],
                 average_score |-> Quotient(SumOf(scores(utterances[k])),
                                            Len(scores(utterances[k]))),
                 n_ratings     |-> Len(scores(utterances[k])),
                 all_scores    |-> scores(utterances[k])]]
    IN  IF \E i \in 1..Len(mos) : ~IsInt(mos[i].score)
        THEN [raised |-> "TypeError"]
        ELSE [raised |-> "none",
              per_utterance_averages |-> per_utterance_averages,
              boxplot_metrics |->
                  calculate_boxplot_metrics(
                      [k \in 1..Len(utterances) |->
                          per_utterance_averages[k].average_score])]

\* output_file of save_results_to_json (line 230), in the results directory
MosResultsFile == <<"m", "o", "s">> \o ResultsSuffix

\* main of qmos_analysis.py (lines 199-234) on a directory whose files
\* glob.glob lists in the given order: the exception it ends with and the
\* directory it leaves.  Without valid QMOS records it returns before
\* writing (lines 204-206); otherwise save_results_to_json (lines
\* 168-181) writes mos_results.json.
qmos_analysis_main(directory, order) ==
    LET loaded   == qmos_load_and_filter_json_files(directory, order)
        analysis == analyze_mos_by_utterance(loaded.returned)
    IN  IF loaded.raised # "none"
        THEN [raised |-> loaded.raised, written |-> FALSE,
              directory |-> directory]
        ELSE IF loaded.returned = <<>>
        THEN [raised |-> "none", written |-> FALSE, directory |-> directory]
        ELSE IF analysis.raised # "none"
        THEN [raised |-> analysis.raised, written |-> FALSE,
              directory |-> directory]
        ELSE [raised |-> "none", written |-> TRUE,
              directory |->
                  (MosResultsFile :>
                      [summary |->
                           [total_utterances |->
                                Len(analysis.per_utterance_averages),
                            boxplot_metrics |-> analysis.boxplot_metrics],
                       per_utterance_averages |->
                           analysis.per_utterance_averages])
                  @@ directory]

\* a run of qmos_analysis.py on the results directory (lines 236-275),
\* started when no analyzer is running
QmosAnalysisMain ==
    /\ AnalyzerIdle
    /\ \E order \in FileOrders(Glob(results_dir, <<".", "j", "s", "o", "n">>)) :
          LET out == qmos_analysis_main(results_dir, order)
          IN  /\ results_dir' = out.directory
              /\ event' = [op |-> "qmos_analysis_main", s |-> "none",
                           raised |-> out.raised, written |-> out.written]
    /\ UNCHANGED <<cfg, user_id, url_params_state, test_cases_state,
                   current_page_state, results_state, ref_audio_played_state,
                   target_audio_played_state, prolific_pid, id_input_section,
                   test_interface, reference, reference_visible, target, submit_score, redirect,
                   writes, loads, sampled_cases>>

\* a QMOS record as run_test stores it
QmosResponse(target_audio, score) ==
    [Response("QMOS", None, None, <<"sysB">>, FALSE, score)
        EXCEPT !.target_audio = target_audio]

\* the record of an attention trial without a reference
QmosAttentionResponse(target_audio, score) ==
    [Response("no_reference_attention", None, None, None, FALSE, score)
        EXCEPT !.target_audio = target_audio]

\* audios/c_good.wav, an attention audio whose expected score is 4
QualityAudio == <<"a", "/", "c", "_", "g", "o", "o", "d", ".", "w", "a", "v">>

\* the records the bundles of the first participant are made of: QMOS
\* records of two utterances, one without a score, attention records with
\* the expected score, another score, and a file name that ends in no
\* quality word, and a CMOS record
QmosRecords ==
    {QmosResponse(<<"B", "/", "u", ".", "w", "a", "v">>, PyIntValue(3)),
     QmosResponse(<<"B", "/", "u", ".", "w", "a", "v">>, PyIntValue(5)),
     QmosResponse(<<"B", "/", "v", ".", "w", "a", "v">>, PyIntValue(4)),
     QmosResponse(<<"B", "/", "u", ".", "w", "a", "v">>, None),
     QmosAttentionResponse(QualityAudio, PyIntValue(4)),
     QmosAttentionResponse(QualityAudio, PyIntValue(2)),
     QmosAttentionResponse(AttentionAudio, PyIntValue(4)),
     CmosResponse(FALSE, PyIntValue(2))}

\* the bundles of the second participant
OtherQmosBundles ==
    {<<QmosResponse(<<"B", "/", "w", ".", "w", "a", "v">>, PyIntValue(2)),
       QmosResponse(<<"B", "/", "v", ".", "w", "a", "v">>, PyIntValue(1))>>,
     <<QmosAttentionResponse(QualityAudio, PyIntValue(2)),
       QmosResponse(<<"B", "/", "u", ".", "w", "a", "v">>, PyIntValue(5))>>}

\* results directories: empty, one that holds nothing but the per-utterance
\* file of analysis.py, the first participant's file alone, with the
\* second participant's file, and with a file of the second participant
\* that a refused write has cut short
QmosDirectories ==
    {<<>>, UtteranceResultsFile :> [json_list |-> <<>>]}
    \cup {WriteResults(<<>>, FirstParticipant, b) :
              b \in UNION {[1..n -> QmosRecords] : n \in 0..MaxBundleLen}}
    \cup {WriteResults(WriteResults(<<>>, FirstParticipant, b),
                       OtherParticipant, c) :
              b \in UNION {[1..n -> QmosRecords] : n \in 0..MaxBundleLen},
              c \in OtherQmosBundles}
    \cup {(ResultsFile(OtherParticipant) :> [cut_short |-> TRUE])
          @@ WriteResults(<<>>, FirstParticipant, b) :
              b \in UNION {[1..n -> QmosRecords] : n \in 0..1}}

InitQmos ==
    /\ cfg = NoConfig
    /\ user_id = [s \in Sessions |-> None]
    /\ url_params_state = [s \in Sessions |-> <<>>]
    /\ test_cases_state = [s \in Sessions |-> <<>>]
    /\ current_page_state = [s \in Sessions |-> 0]
    /\ results_state = [s \in Sessions |-> <<>>]
    /\ ref_audio_played_state = [s \in Sessions |-> FALSE]
    /\ target_audio_played_state = [s \in Sessions |-> FALSE]
    /\ prolific_pid = [s \in Sessions |-> <<>>]
    /\ id_input_section = [s \in Sessions |-> TRUE]
    /\ test_interface = [s \in Sessions |-> FALSE]
    /\ reference = [s \in Sessions |-> None]
    /\ reference_visible = [s \in Sessions |-> TRUE]
    /\ target = [s \in Sessions |-> None]
    /\ submit_score = [s \in Sessions |-> TRUE]
    /\ redirect = [s \in Sessions |-> FALSE]
    /\ results_dir \in QmosDirectories
    /\ writes = [s \in Sessions |-> 0]
    /\ loads = 0
    /\ event = [op |-> "none", s |-> "none"]
    /\ sampled_cases = NoList

\* the two analyzers run on one results directory, one run at a time
NextQmos ==
    \/ QmosAnalysisMain
    \/ NextAnalysis

SpecQmos == InitQmos /\ [][NextQmos]_vars

\* ---------------------------------------------------------------------
\* webpage.py: the entry variant whose MOSTest object holds the cursor,
\* the responses and the URL parameters itself (lines 38-41).  cfg is that
\* object; every browser session is served by the same one.  user_id and
\* the components are per session as before; the per-session cursor, trial
\* sequence, responses and played flags do not exist in this program and
\* stay as they start, as does the count of written files.  The audio
\* slots get plain values from load_and_populate and start_test and
\* update(value=...) from run_test, none of which changes whether a slot is
\* visible: only the finished test hides them (lines 199-200), and they
\* stay hidden until the page is loaded anew.  target is the value of the
\* component, which is what run_test is handed as audio_played.
\* ---------------------------------------------------------------------

\* self.test_cases (lines 11-37)
WebTestCases ==
    <<[type |-> "smos_instruction", reference |-> <<"audios/1.wav">>, target |-> <<"audios/1.wav">>],
      [type |-> "cmos_instruction", reference |-> <<"audios/4.wav">>, target |-> <<"audios/4.wav">>],
      [type |-> "smos", reference |-> <<"audios/1.wav">>, target |-> <<"audios/2.wav">>],
      [type |-> "cmos", reference |-> <<"audios/3.wav">>, target |-> <<"audios/4.wav">>],
      [type |-> "attention", reference |-> <<"audios/attention_high.wav">>,
       target |-> <<"audios/attention_high.wav">>]>>

\* the value of the score slider: each participant keeps to a rating of
\* their own, so that a record shows who submitted it
WebScore == [s1 |-> PyIntValue(3), s2 |-> PyIntValue(4)]

\* MOSTest.__init__ (lines 9-41) and the components as constructed
InitWebpage ==
    /\ cfg = [test_cases |-> WebTestCases, current_page |-> 0,
              total_pages |-> Len(WebTestCases), results |-> <<>>,
              url_params |-> <<>>]
    /\ user_id = [s \in Sessions |-> None]
    /\ url_params_state = [s \in Sessions |-> <<>>]
    /\ test_cases_state = [s \in Sessions |-> <<>>]
    /\ current_page_state = [s \in Sessions |-> 0]
    /\ results_state = [s \in Sessions |-> <<>>]
    /\ ref_audio_played_state = [s \in Sessions |-> FALSE]
    /\ target_audio_played_state = [s \in Sessions |-> FALSE]
    /\ prolific_pid = [s \in Sessions |-> <<>>]
    /\ id_input_section = [s \in Sessions |-> TRUE]
    /\ test_interface = [s \in Sessions |-> FALSE]
    /\ reference = [s \in Sessions |-> None]
    /\ reference_visible = [s \in Sessions |-> TRUE]
    /\ target = [s \in Sessions |-> None]
    /\ submit_score = [s \in Sessions |-> TRUE]
    /\ redirect = [s \in Sessions |-> FALSE]
    /\ results_dir = <<>>
    /\ writes = [s \in Sessions |-> 0]
    /\ loads = 0
    /\ event = [op |-> "none", s |-> "none"]
    /\ sampled_cases = NoList

\* load_and_populate of webpage.py (lines 262-307): the object's cursor,
\* responses and URL parameters are reset for the page load of session s.
\* The page is built anew, with its components visible as constructed.
WebLoad(s, params) ==
    /\ loads < MaxLoads
    /\ loads' = loads + 1
    /\ event' = [op |-> "load_and_populate", s |-> s, params |-> params]
    /\ cfg' = [cfg EXCEPT !.url_params = params, !.current_page = 0,
                          !.results = <<>>]
    /\ LET prolific_pid_from_url == GetProlificPid(params)
           auto == Truthy(prolific_pid_from_url)
       IN  /\ url_params_state' = SetForSession(url_params_state, s, params)
           /\ prolific_pid' = SetForSession(prolific_pid, s,
                                    IF auto THEN prolific_pid_from_url ELSE <<>>)
           /\ id_input_section' = SetForSession(id_input_section, s, ~auto)
           /\ test_interface' = SetForSession(test_interface, s, auto)
           /\ user_id' = SetForSession(user_id, s,
                                    IF auto THEN prolific_pid_from_url ELSE None)
           /\ reference' = SetForSession(reference, s,
                    IF auto THEN cfg.test_cases[1].reference ELSE None)
           /\ reference_visible' = SetForSession(reference_visible, s, TRUE)
           /\ target' = SetForSession(target, s,
                    IF auto THEN cfg.test_cases[1].target ELSE None)
    /\ submit_score' = SetForSession(submit_score, s, TRUE)
    /\ redirect' = SetForSession(redirect, s, FALSE)
    /\ UNCHANGED <<test_cases_state, current_page_state, results_state,
                   ref_audio_played_state, target_audio_played_state,
                   results_dir, writes, sampled_cases>>

\* start_test of webpage.py (lines 309-341); the identity section and the
\* Submit button are not among its outputs and stay as they are, and the
\* audio it returns is a plain value, which a hidden slot does not show
WebStartTest(s, email_input) ==
    /\ id_input_section[s]
    /\ event' = [op |-> "start_test", s |-> s, email_input |-> email_input]
    /\ LET pid_input == prolific_pid[s]
           refused == IdentityRefused(email_input, pid_input)
           valid_id == IF Truthy(email_input) THEN email_input ELSE pid_input
       IN  /\ cfg' = IF refused THEN cfg
                     ELSE [cfg EXCEPT !.current_page = 0, !.results = <<>>]
           /\ user_id' = SetForSession(user_id, s,
                                IF refused THEN None ELSE valid_id)
           /\ test_interface' = SetForSession(test_interface, s, ~refused)
           /\ reference' = SetForSession(reference, s,
                                IF refused \/ ~reference_visible[s] THEN None
                                ELSE cfg.test_cases[1].reference)
           /\ target' = SetForSession(target, s,
                                IF refused THEN None ELSE cfg.test_cases[1].target)
    /\ UNCHANGED <<url_params_state, test_cases_state, current_page_state,
                   results_state, ref_audio_played_state, target_audio_played_state,
                   prolific_pid, id_input_section, reference_visible,
                   submit_score, redirect, results_dir, writes, loads,
                   sampled_cases>>

\* result_entry of webpage.py (lines 154-164)
WebResultEntry(test_page, score, url_params) ==
    LET entry == [test_type |-> test_page.type,
                  target_audio |-> test_page.target, score |-> score]
    IN  IF url_params # <<>> THEN entry @@ [url_params |-> url_params] ELSE entry

\* submit_score.click -> run_test of webpage.py (lines 134-226), with the
\* value of the target audio component as audio_played.  The click needs
\* the Submit button on the page: a finished test hides it (lines 189 and
\* 196) and start_test does not bring it back.  The two early returns hand
\* back six values for seven outputs, so Gradio applies none of them.
WebRunTest(s, score) ==
    /\ test_interface[s]
    /\ submit_score[s]
    /\ LET audio_played == target[s]
           turned_back == \/ ~Truthy(user_id[s])
                          \/ cfg.current_page >= cfg.total_pages
                          \/ audio_played = None
           entry == WebResultEntry(cfg.test_cases[cfg.current_page + 1],
                                   score, cfg.url_params)
           new_page == cfg.current_page + 1
           new_results == Append(cfg.results, entry)
           finished == new_page >= cfg.total_pages
       IN  IF turned_back
           THEN /\ event' = [op |-> "run_test", s |-> s, score |-> score,
                             raised |-> "ValueError"]
                /\ UNCHANGED <<cfg, reference, reference_visible, target,
                               submit_score, redirect, results_dir>>
           ELSE /\ event' = [op |-> "run_test", s |-> s, score |-> score,
                             raised |-> "none"]
                /\ cfg' = [cfg EXCEPT !.current_page = new_page,
                                      !.results = new_results]
                /\ reference' = SetForSession(reference, s,
                        IF finished \/ ~reference_visible[s] THEN None
                        ELSE cfg.test_cases[new_page + 1].reference)
                /\ reference_visible' =
                        IF finished THEN SetForSession(reference_visible, s, FALSE)
                        ELSE reference_visible
                /\ target' = SetForSession(target, s,
                        IF finished THEN None
                        ELSE cfg.test_cases[new_page + 1].target)
                /\ submit_score' = SetForSession(submit_score, s, ~finished)
                /\ redirect' = IF finished /\ ~HasAt(user_id[s])
                               THEN SetForSession(redirect, s, TRUE)
                               ELSE redirect
                /\ results_dir' = IF finished
                                  THEN WriteResults(results_dir, user_id[s], new_results)
                                  ELSE results_dir
    /\ UNCHANGED <<user_id, url_params_state, test_cases_state,
                   current_page_state, results_state, ref_audio_played_state,
                   target_audio_played_state, prolific_pid, id_input_section,
                   test_interface, writes, loads, sampled_cases>>

\* Two participants on the webpage.py application: the first comes by a
\* link with a participant id, the second opens the plain address and
\* gives an e-mail address
NextWebpage ==
    \/ WebLoad("s1", [PROLIFIC_PID |-> Pid])
    \/ WebLoad("s2", <<>>)
    \/ WebStartTest("s2", EmailGood)
    \/ \E s \in Sessions : WebRunTest(s, WebScore[s])

SpecWebpage == InitWebpage /\ [][NextWebpage]_vars

\* ---------------------------------------------------------------------
\* The attention checks of main2.py's sample_test_cases_for_session, with
\* the order of the drawn checks and the drawn indexes kept in the event
\* ---------------------------------------------------------------------

\* trials of the longest sequence the checks are inserted into
MaxBaseLen == 10

\* the loop of main2.py lines 76-83 from its i-th iteration on, with the
\* indexes random.randint returned so far
RECURSIVE InsertAttentionAt(_, _, _, _)
InsertAttentionAt(test_cases, checks, i, indexes) ==
    IF i >= Len(checks) THEN {[test_cases |-> test_cases, indexes |-> indexes]}
    ELSE UNION {InsertAttentionAt(ListInsert(test_cases, index, checks[i + 1]),
                                  checks, i + 1, Append(indexes, index)) :
                    index \in FloorFifths(i + 1, Len(test_cases))
                              ..FloorFifths(i + 2, Len(test_cases))}

\* MOSTest.__init__ with a catalog of one QMOS group of any size up to
\* MaxBaseLen that is taken whole, no instruction pages and a pool of
\* num_attention attention checks
InitAttention ==
    /\ cfg \in {[test_cases |-> <<[test |-> "QMOS",
                                   system_pairs |-> <<Group("QMOS", 1, n)>>]>>,
                 sample_size_per_test |-> MaxBaseLen + 1,
                 instruction_pages |-> NoList,
                 attention_checks |-> [i \in 1..num_attention |-> AttentionCheck(i)]] :
                    n \in 0..MaxBaseLen}
    /\ IdleSessions
    /\ sampled_cases = NoList

\* one call of test.sample_test_cases_for_session() of main2.py
SampleWithChecks ==
    /\ sampled_cases = NoList
    /\ \E sampled \in sample_test_cases(cfg.test_cases, cfg.sample_size_per_test) :
       \E questions \in InsertInstructions(sampled, cfg.instruction_pages) :
       \E checks \in RandomSample(cfg.attention_checks, num_attention) :
       \E out \in InsertAttentionAt(Flatten(questions), checks, 0, <<>>) :
            /\ sampled_cases' = out.test_cases
            /\ event' = [op |-> "sample_test_cases_for_session", s |-> "none",
                         checks |-> checks, indexes |-> out.indexes]
    /\ UNCHANGED <<cfg, user_id, url_params_state, test_cases_state,
                   current_page_state, results_state, ref_audio_played_state,
                   target_audio_played_state, prolific_pid, id_input_section,
                   test_interface, reference, reference_visible, target, submit_score, redirect,
                   results_dir, writes, loads>>

NextAttention == SampleWithChecks

SpecAttention == InitAttention /\ [][NextAttention]_vars

\* ---------------------------------------------------------------------
\* The session samplers as operations on list objects: which list an
\* in-place operation (random.shuffle, list.insert) changes.  The lists
\* held by the program are the comparison groups of
\* TestCasesSampler.test_cases, cfg.instructions and cfg.attention_checks.
\* ---------------------------------------------------------------------

\* a variant in which the bucket of a test type with a single comparison
\* group is that group's list itself
BucketIsSingleGroup(catalog, c) ==
    IF Len(catalog[c].system_pairs) = 1 THEN <<c, 1>> ELSE None

\* the list object under sampled_cases[test] (utils.py lines 44-51): a list
\* made by defaultdict(list) that extend copies the drawn items into; it is
\* no list of the catalog (None), else <<c, g>> would name group g of
\* catalog entry c
BucketAlias(catalog, c) == None

\* the catalog once the buckets of the dict have been changed in place into
\* questions: a group that is the list object of a bucket holds what the
\* bucket holds
CatalogAfter(catalog, questions) ==
    [c \in 1..Len(catalog) |->
        IF BucketAlias(catalog, c) = None THEN catalog[c]
        ELSE [catalog[c] EXCEPT
                !.system_pairs[BucketAlias(catalog, c)[2]] =
                    DictGet(questions, catalog[c].test)]]

\* the buckets of main.py after random.shuffle(cases) of each (line 46),
\* read back from the flat list they were copied into in order
RECURSIVE ShuffledBuckets(_, _)
ShuffledBuckets(questions, flat) ==
    IF questions = <<>> THEN <<>>
    ELSE <<[test |-> Head(questions).test,
            cases |-> SubSeq(flat, 1, Len(Head(questions).cases))]>>
         \o ShuffledBuckets(Tail(questions),
                            SubSeq(flat, Len(Head(questions).cases) + 1, Len(flat)))

\* catalogs with one CMOS group and one QMOS group of up to two items
SharedCatalogs ==
    {<<[test |-> "CMOS", system_pairs |-> <<Group("CMOS", 1, k1)>>],
       [test |-> "QMOS", system_pairs |-> <<Group("QMOS", 2, k2)>>]>> :
        k1 \in 1..2, k2 \in 0..2}

\* MOSTest.__init__ (main2.py lines 18-32)
InitCatalog ==
    /\ cfg \in {[test_cases |-> catalog,
                 sample_size_per_test |-> n,
                 instruction_pages |-> instruction_pages,
                 attention_checks |-> attention_checks] :
                    catalog \in SharedCatalogs,
                    n \in 1..2,
                    instruction_pages \in {NoList,
                        <<Instruction("cmos_instruction")>>,
                        <<Instruction("qmos_instruction"),
                          Instruction("smos_instruction")>>},
                    attention_checks \in
                        {NoList, [i \in 1..num_attention |-> AttentionCheck(i)]}}
    /\ IdleSessions
    /\ sampled_cases = NoList

\* test.sample_test_cases_for_session() of main2.py called for a page load
\* of session s.  random.shuffle and insert(0, instruction) act on the
\* buckets (lines 57-65); the attention checks are inserted into the list
\* made at line 52; cfg.instructions is iterated and cfg.attention_checks
\* is read by random.sample, which returns a new list.
SampleInSession(s) ==
    /\ loads < MaxLoads
    /\ loads' = loads + 1
    /\ \E sampled \in sample_test_cases(cfg.test_cases, cfg.sample_size_per_test) :
       \E questions \in InsertInstructions(sampled, cfg.instruction_pages) :
            /\ sampled_cases' \in
                    IF cfg.attention_checks = NoList THEN {Flatten(questions)}
                    ELSE UNION {InsertAttention(Flatten(questions), checks, 0) :
                            checks \in RandomSample(cfg.attention_checks, num_attention)}
            /\ cfg' = [cfg EXCEPT !.test_cases = CatalogAfter(cfg.test_cases, questions)]
    /\ event' = [op |-> "sample_test_cases_for_session", s |-> s]
    /\ UNCHANGED <<user_id, url_params_state, test_cases_state,
                   current_page_state, results_state, ref_audio_played_state,
                   target_audio_played_state, prolific_pid, id_input_section,
                   test_interface, reference, reference_visible, target, submit_score, redirect,
                   results_dir, writes>>

\* load_and_populate of main.py (lines 401-459) for a link without
\* PROLIFIC_PID, opened by the browser of session s.  It calls
\* test.sample_test_cases_for_session(): random.shuffle acts on the buckets
\* (line 46); the attention checks are inserted into the list made at line
\* 44, and 'self.instruction_pages + test_cases' builds a new list (line
\* 55).  The list is returned for test_cases_state with the identity
\* section shown, the test interface hidden and no user_id.
SampleInSessionMain(s) ==
    /\ loads < MaxLoads
    /\ loads' = loads + 1
    /\ \E questions \in sample_test_cases(cfg.test_cases, cfg.sample_size_per_test) :
       \E flat \in ShuffleAndFlatten(questions) :
       \E with_checks \in InsertAttentionMain(flat, main_attention_checks, 0) :
            /\ sampled_cases' = main_instruction_pages \o with_checks
            /\ test_cases_state' = SetForSession(test_cases_state, s,
                                        main_instruction_pages \o with_checks)
            /\ cfg' = [cfg EXCEPT !.test_cases =
                            CatalogAfter(cfg.test_cases, ShuffledBuckets(questions, flat))]
    /\ event' = [op |-> "sample_test_cases_for_session_main", s |-> s]
    /\ url_params_state' = SetForSession(url_params_state, s, <<>>)
    /\ prolific_pid' = SetForSession(prolific_pid, s, <<>>)
    /\ id_input_section' = SetForSession(id_input_section, s, TRUE)
    /\ test_interface' = SetForSession(test_interface, s, FALSE)
    /\ user_id' = SetForSession(user_id, s, None)
    /\ reference' = SetForSession(reference, s, None)
    /\ reference_visible' = SetForSession(reference_visible, s, TRUE)
    /\ target' = SetForSession(target, s, None)
    /\ current_page_state' = SetForSession(current_page_state, s, 0)
    /\ results_state' = SetForSession(results_state, s, <<>>)
    /\ ref_audio_played_state' = SetForSession(ref_audio_played_state, s, FALSE)
    /\ target_audio_played_state' = SetForSession(target_audio_played_state, s, FALSE)
    /\ submit_score' = SetForSession(submit_score, s, TRUE)
    /\ redirect' = SetForSession(redirect, s, FALSE)
    /\ writes' = SetForSession(writes, s, 0)
    /\ UNCHANGED results_dir

NextCatalog ==
    \/ \E s \in Sessions : SampleInSession(s)
    \/ \E s \in Sessions : SampleInSessionMain(s)

SpecCatalog == InitCatalog /\ [][NextCatalog]_vars

\* ---------------------------------------------------------------------
\* Properties of the session state machine
\* ---------------------------------------------------------------------

\* the session is identified and has a current trial
InProgress(s) ==
    Truthy(user_id[s]) /\ current_page_state[s] < Len(test_cases_state[s])

CurrentTrial(s) == test_cases_state[s][current_page_state[s] + 1]

\* the integer a "value: label" selection stands for, None without one
ScoreOf(text) ==
    IF Truthy(text) /\ PyInt(SplitFirst(text)) # ValueError
    THEN PyInt(SplitFirst(text)) ELSE None

InScale(trial, score) ==
    /\ IsInt(score)
    /\ get_slider_config(create_page(trial))[1] <= IntOf(score)
    /\ IntOf(score) <= get_slider_config(create_page(trial))[2]

\* the step is a submission of session s
Submits(s) == event'.op = "run_test" /\ event'.s = s

\* every audio slot shown to session s has been played to its end
AllPlayed(s) ==
    /\ target_audio_played_state[s]
    /\ reference[s] = None \/ ref_audio_played_state[s]

\* C1: a submission whose score is an integer outside the scale of the
\* current trial changes neither the cursor nor the responses.
C1_OutOfScaleRejected ==
    [][\A s \in Sessions :
          (/\ Submits(s)
           /\ InProgress(s)
           /\ IsInt(ScoreOf(event'.naturalness_score))
           /\ ~InScale(CurrentTrial(s), ScoreOf(event'.naturalness_score)))
          => /\ current_page_state'[s] = current_page_state[s]
             /\ results_state'[s] = results_state[s]]_vars

\* C2: a submission made before a required audio was played to the end
\* leaves cursor, responses, trial sequence and both played flags as they
\* were and writes nothing.
C2_UnplayedSubmissionChangesNothing ==
    [][\A s \in Sessions :
          (Submits(s) /\ InProgress(s) /\ ~AllPlayed(s))
          => /\ current_page_state'[s] = current_page_state[s]
             /\ results_state'[s] = results_state[s]
             /\ test_cases_state'[s] = test_cases_state[s]
             /\ ref_audio_played_state'[s] = ref_audio_played_state[s]
             /\ target_audio_played_state'[s] = target_audio_played_state[s]
             /\ results_dir' = results_dir]_vars

\* a valid score was submitted on a two-slot trial whose target, but not
\* its reference, had been played; the trial is still the current one
C2_Witness ==
    /\ event.op = "run_test"
    /\ event.s = "s1"
    /\ InProgress("s1")
    /\ target_audio_played_state["s1"]
    /\ reference["s1"] # None
    /\ ~ref_audio_played_state["s1"]
    /\ InScale(CurrentTrial("s1"), ScoreOf(event.naturalness_score))

\* C3: an accepted submission (audio played, integer score in the scale)
\* appends exactly one record, for the trial at the cursor, and moves the
\* cursor by exactly one; no step moves the cursor forward by more.
C3_AcceptedSubmissionAdvancesByOne ==
    [][\A s \in Sessions :
          /\ current_page_state'[s] <= current_page_state[s] + 1
          /\ (/\ Submits(s)
              /\ InProgress(s)
              /\ AllPlayed(s)
              /\ InScale(CurrentTrial(s), ScoreOf(event'.naturalness_score)))
             => /\ current_page_state'[s] = current_page_state[s] + 1
                /\ Len(results_state'[s]) = Len(results_state[s]) + 1
                /\ SubSeq(results_state'[s], 1, Len(results_state[s]))
                      = results_state[s]
                /\ LET entry == results_state'[s][Len(results_state'[s])]
                   IN  /\ entry.test_type = CurrentTrial(s).type
                       /\ entry.target_audio = CurrentTrial(s).target
                       /\ entry.reference_audio = CurrentTrial(s).reference]_vars

\* the first of two trials was answered with an in-scale score
C3_Witness ==
    /\ event.op = "run_test"
    /\ event.s = "s1"
    /\ Len(test_cases_state["s1"]) = 2
    /\ current_page_state["s1"] = 1
    /\ Len(results_state["s1"]) = 1
    /\ InScale(test_cases_state["s1"][1], results_state["s1"][1].score)

\* C4: the cursor is never negative and never beyond the trial sequence.
C4_CursorInBounds ==
    \A s \in Sessions :
        /\ 0 <= current_page_state[s]
        /\ current_page_state[s] <= Len(test_cases_state[s])

\* a session that submitted its way to the end of a two-trial sequence
C4_Witness ==
    /\ event.op = "run_test"
    /\ Len(test_cases_state["s1"]) = 2
    /\ current_page_state["s1"] = 2

\* the step takes session s from a trial in progress to the end of its
\* trial sequence
Completes(s) ==
    /\ Submits(s)
    /\ current_page_state[s] < Len(test_cases_state[s])
    /\ current_page_state'[s] = Len(test_cases_state'[s])

\* session s is identified and has answered every trial of its sequence
Completed(s) ==
    /\ Truthy(user_id[s])
    /\ Len(test_cases_state[s]) > 0
    /\ current_page_state[s] = Len(test_cases_state[s])

\* C5: when a session over L trials completes, the bundle written for its
\* user_id holds exactly L records, and the i-th record is the response to
\* the i-th trial of the sequence (same test type and target audio).
C5_BundleHoldsEveryResponseInOrder ==
    [][\A s \in Sessions :
          Completes(s)
          => /\ ResultsFile(user_id[s]) \in DOMAIN results_dir'
             /\ LET trials == test_cases_state[s]
                    records == results_dir'[ResultsFile(user_id[s])].results
                IN  /\ Len(records) = Len(trials)
                    /\ \A i \in 1..Len(trials) :
                          /\ records[i].test_type = trials[i].type
                          /\ records[i].target_audio = trials[i].target]_vars

\* a session over two trials of different types has completed and its
\* bundle is in the results directory
C5_Witness ==
    /\ event.op = "run_test"
    /\ Completed("s1")
    /\ Len(test_cases_state["s1"]) = 2
    /\ test_cases_state["s1"][1].type # test_cases_state["s1"][2].type
    /\ ResultsFile(user_id["s1"]) \in DOMAIN results_dir
    /\ Len(results_dir[ResultsFile(user_id["s1"])].results) = 2

\* C6: a session writes its bundle at most once, and a step writes it
\* exactly when the step brings the cursor to the end of the trial sequence.
C6_WrittenOnceOnCompletion ==
    [][\A s \in Sessions :
          /\ writes'[s] <= 1
          /\ (writes'[s] = writes[s] + 1) <=> Completes(s)]_vars

\* a submission arrived after the session had completed and written its
\* bundle; the bundle was not written again
C6_Witness ==
    /\ event.op = "run_test"
    /\ Completed("s1")
    /\ writes["s1"] = 1
    /\ submit_score["s1"]

\* C7: partial progress is never written.  A step that leaves its session
\* before the end of the trial sequence leaves the results directory as it
\* was; the directory changes only in the file of the user_id of a session
\* that the step brings to the end of its sequence.
C7_PartialProgressNeverWritten ==
    [][\A s \in Sessions :
          event'.s = s
          => /\ current_page_state'[s] < Len(test_cases_state'[s])
                => results_dir' = results_dir
             /\ results_dir' # results_dir
                => /\ Completes(s)
                   /\ \A u \in DOMAIN results_dir' :
                         u # ResultsFile(user_id[s])
                         => u \in DOMAIN results_dir /\ results_dir'[u] = results_dir[u]]_vars

\* one session has completed and written its bundle while the other, with
\* one of two trials answered, has written nothing
C7_Witness ==
    /\ Completed("s1")
    /\ writes["s1"] = 1
    /\ Truthy(user_id["s2"])
    /\ user_id["s2"] # user_id["s1"]
    /\ Len(test_cases_state["s2"]) = 2
    /\ current_page_state["s2"] = 1
    /\ Len(results_state["s2"]) = 1
    /\ DOMAIN results_dir = {ResultsFile(user_id["s1"])}

\* C8: persisting is last-write-wins per user_id.  After a completing
\* submission the file of the session's user_id holds exactly that session's
\* record list, whatever the file held before, and no other file changes.
C8_LastWriteWins ==
    [][\A s \in Sessions :
          Completes(s)
          => /\ DOMAIN results_dir' =
                    DOMAIN results_dir \cup {ResultsFile(user_id[s])}
             /\ results_dir'[ResultsFile(user_id[s])] =
                    [user_id |-> user_id[s], results |-> results_state'[s]]
             /\ \A u \in DOMAIN results_dir :
                    u # ResultsFile(user_id[s])
                    => results_dir'[u] = results_dir[u]]_vars

\* two sessions with the same user_id have both completed with different
\* record lists; the file holds the list of the one that completed last
C8_Witness ==
    /\ event.op = "run_test"
    /\ event.s = "s2"
    /\ Completed("s1")
    /\ Completed("s2")
    /\ writes["s1"] = 1
    /\ writes["s2"] = 1
    /\ user_id["s1"] = user_id["s2"]
    /\ results_state["s1"] # results_state["s2"]
    /\ results_dir[ResultsFile(user_id["s2"])].results = results_state["s2"]

\* what a session holds: trial sequence, cursor, responses, identity and
\* played flags
SessionState(s) ==
    <<test_cases_state[s], current_page_state[s], results_state[s], user_id[s],
      ref_audio_played_state[s], target_audio_played_state[s]>>

\* C9: an event handled for one session leaves every other session's
\* trial sequence, cursor, responses, identity and played flags unchanged.
C9_SessionsIsolated ==
    [][\A s \in Sessions, other \in Sessions :
          (event'.s = s /\ other # s) => SessionState(other)' = SessionState(other)]_vars

\* a submission of one session was recorded while the other session was in
\* the middle of its own test with a response recorded
C9_Witness ==
    /\ event.op = "run_test"
    /\ event.s = "s1"
    /\ Len(results_state["s1"]) = 1
    /\ InProgress("s2")
    /\ Len(results_state["s2"]) = 1
    /\ current_page_state["s2"] = 1
    /\ target_audio_played_state["s2"]

\* number of positions of list that hold item
Occurrences(list, item) == Cardinality({i \in 1..Len(list) : list[i] = item})

\* positions of list that hold an item of group
Contributed(list, group) ==
    {i \in 1..Len(list) : \E j \in 1..Len(group) : list[i] = group[j]}

\* C10: sample_test_cases takes from every comparison group at most
\* sample_size_per_test items, none of them twice; a group with no more
\* items than sample_size_per_test contributes every item exactly once.
C10_GroupSampleBounded ==
    sampled_cases # NoList
    => \A t \in 1..Len(cfg.test_cases) :
        \A g \in 1..Len(cfg.test_cases[t].system_pairs) :
            LET group == cfg.test_cases[t].system_pairs[g]
                taken == DictGet(sampled_cases, cfg.test_cases[t].test)
            IN  /\ Cardinality(Contributed(taken, group)) <= cfg.sample_size_per_test
                /\ \A j \in 1..Len(group) : Occurrences(taken, group[j]) <= 1
                /\ Len(group) <= cfg.sample_size_per_test
                   => \A j \in 1..Len(group) : Occurrences(taken, group[j]) = 1

\* a call with sample size 2 took two of the three items of one group and
\* both items of another
C10_Witness ==
    /\ event.op = "sample_test_cases"
    /\ cfg.sample_size_per_test = 2
    /\ Len(cfg.test_cases[1].system_pairs[1]) = 3
    /\ Len(cfg.test_cases[1].system_pairs[2]) = 2
    /\ Len(DictGet(sampled_cases, "CMOS")) = 4

\* ---------------------------------------------------------------------
\* Properties of the per-session trial sequence
\* ---------------------------------------------------------------------

\* a list of the configuration that may be absent
ListOrEmpty(list) == IF list = NoList THEN <<>> ELSE list

Min(a, b) == IF a <= b THEN a ELSE b

\* sum over the groups of min(len(group), sample size)
RECURSIVE GroupsTotal(_, _)
GroupsTotal(system_pairs, n) ==
    IF system_pairs = <<>> THEN 0
    ELSE Min(Len(Head(system_pairs)), n) + GroupsTotal(Tail(system_pairs), n)

RECURSIVE CatalogTotal(_, _)
CatalogTotal(catalog, n) ==
    IF catalog = <<>> THEN 0
    ELSE GroupsTotal(Head(catalog).system_pairs, n) + CatalogTotal(Tail(catalog), n)

\* the call of main2.py's session sampler has returned
SessionSampled == event.op = "sample_test_cases_for_session"

\* the call of main.py's session sampler has returned
SessionSampledMain == event.op = "sample_test_cases_for_session_main"

\* C11: the sequence returned by sample_test_cases_for_session has length
\* len(instruction trials) + sum over the groups of min(len(group), sample
\* size) + number of attention checks (none without a pool).
C11_SessionLength ==
    SessionSampled
    => Len(sampled_cases)
         = Len(ListOrEmpty(cfg.instruction_pages))
           + CatalogTotal(cfg.test_cases, cfg.sample_size_per_test)
           + (IF cfg.attention_checks = NoList THEN 0 ELSE num_attention)

\* 0-based indexes of the attention checks in the returned sequence
AttentionPositions ==
    {p \in 0..(Len(sampled_cases) - 1) : sampled_cases[p + 1].type = "attention"}

\* C12 as stated: in a sequence of final length L of at least 8 (from where
\* on main2.py puts no check first), every attention check is at an index strictly between 0.2 L (the lowest
\* fraction either program uses) and 0.9 L, and is neither first nor last.
C12_AttentionInsideFinalWindow ==
    (SessionSampled \/ SessionSampledMain) /\ Len(sampled_cases) >= 8
    => \A p \in AttentionPositions :
          /\ 2 * Len(sampled_cases) < 10 * p
          /\ 10 * p < 9 * Len(sampled_cases)
          /\ p # 0
          /\ p # Len(sampled_cases) - 1

\* C12 amended: the windows are fractions of the list as it is when the
\* check is inserted.  In main.py the final index p still satisfies
\* 0.25 L < p < 0.9 L; in main2.py floor(0.2 (L - 3)) <= p < 0.8 L, where p
\* can be below 0.2 L.  No attention check is the first trial in main.py
\* nor the last for L >= 5; in main2.py none is first or last for L >= 8.
C12_AttentionInsideInsertionWindow ==
    /\ SessionSampledMain
       => \A p \in AttentionPositions :
             /\ Len(sampled_cases) < 4 * p
             /\ 10 * p < 9 * Len(sampled_cases)
             /\ p # 0
             /\ Len(sampled_cases) >= 5
                => p # Len(sampled_cases) - 1
    /\ SessionSampled
       => \A p \in AttentionPositions :
             /\ (Len(sampled_cases) - 3) \div 5 <= p
             /\ 5 * p < 4 * Len(sampled_cases)
             /\ Len(sampled_cases) >= 8
                => p # 0 /\ p # Len(sampled_cases) - 1

\* main2.py returned a sequence of 8 trials or more with an
\* attention check at the lowest index of its window, below 0.2 L
C12_Witness ==
    /\ SessionSampled
    /\ Len(sampled_cases) >= 8
    /\ \E p \in AttentionPositions :
          p = (Len(sampled_cases) - 3) \div 5 /\ 10 * p < 2 * Len(sampled_cases)
    /\ Cardinality(AttentionPositions) = num_attention

\* ---------------------------------------------------------------------
\* Properties of identification and completion
\* ---------------------------------------------------------------------

\* run_test called for session s with the given inputs leaves the cursor
\* and the responses as they are and writes nothing
RunTestChangesNothing(s, naturalness_score, editing_score, ref_played, target_played) ==
    LET out == run_test(user_id[s], naturalness_score, ref_played, target_played, editing_score, test_cases_state[s], current_page_state[s], results_state[s], url_params_state[s])
    IN  /\ ~out.raised
        /\ ~out.write
        /\ out.current_page = current_page_state[s]
        /\ out.results = results_state[s]

\* C13: a session whose user_id is set holds an identity accepted by
\* is_valid_email or the non-empty PROLIFIC_PID its page was loaded with;
\* a session without user_id has recorded nothing, is at cursor 0, and
\* run_test called for it with any inputs records nothing and does not move
\* the cursor.
C13_IdentifiedOnlyByValidIdentity ==
    \A s \in Sessions :
        /\ Truthy(user_id[s])
           => \/ is_valid_email(user_id[s])
              \/ /\ "PROLIFIC_PID" \in DOMAIN url_params_state[s]
                 /\ url_params_state[s]["PROLIFIC_PID"] = user_id[s]
        /\ ~Truthy(user_id[s])
           => /\ results_state[s] = <<>>
              /\ current_page_state[s] = 0
              /\ ~test_interface[s]
              /\ \A naturalness_score \in ScoreInputs, editing_score \in EditingInputs :
                    \A ref_played \in BOOLEAN, target_played \in BOOLEAN :
                        RunTestChangesNothing(s, naturalness_score, editing_score,
                                              ref_played, target_played)

\* start_test was given a malformed address and no participant id: the
\* session stays unidentified, with its trials sampled and nothing recorded
C13_Witness ==
    /\ event.op = "start_test"
    /\ event.email_input = EmailBad
    /\ user_id["s1"] = None
    /\ Len(test_cases_state["s1"]) > 0
    /\ id_input_section["s1"]

\* the step is the page load of session s
Loads(s) == event'.op = "load_and_populate" /\ event'.s = s

\* the link of the page load carries a non-empty PROLIFIC_PID
LoadedWithPid ==
    /\ "PROLIFIC_PID" \in DOMAIN event'.params
    /\ event'.params["PROLIFIC_PID"] # <<>>

\* C14: a page load with a non-empty PROLIFIC_PID leaves the session in
\* progress with that value as user_id, cursor 0 and no responses; a load
\* without one leaves it unidentified, and an unidentified session becomes
\* identified only by such a load or by a start_test step.
C14_PidAutoStarts ==
    [][\A s \in Sessions :
          /\ Loads(s) /\ LoadedWithPid
             => /\ user_id'[s] = event'.params["PROLIFIC_PID"]
                /\ current_page_state'[s] = 0
                /\ results_state'[s] = <<>>
                /\ test_interface'[s]
                /\ ~id_input_section'[s]
          /\ Loads(s) /\ ~LoadedWithPid
             => /\ user_id'[s] = None
                /\ ~test_interface'[s]
                /\ id_input_section'[s]
          /\ ~Truthy(user_id[s]) /\ Truthy(user_id'[s])
             => \/ Loads(s) /\ LoadedWithPid
                \/ event'.op = "start_test" /\ event'.s = s]_vars

\* a page was loaded with a participant id in its link and is in progress
\* on its first trial, the identity section hidden
C14_Witness ==
    /\ event.op = "load_and_populate"
    /\ event.params = [PROLIFIC_PID |-> Pid]
    /\ user_id["s1"] = Pid
    /\ InProgress("s1")
    /\ current_page_state["s1"] = 0
    /\ test_interface["s1"]
    /\ ~id_input_section["s1"]

\* C15: in a completed session the submit button is hidden, and the
\* 'Return to Prolific' action is visible exactly when the identity is not
\* an e-mail address (it is then the participant id of the link).
C15_RedirectOnlyForExternalId ==
    \A s \in Sessions :
        Completed(s)
        => /\ ~submit_score[s]
           /\ redirect[s] <=> ~is_valid_email(user_id[s])
           /\ redirect[s] => /\ "PROLIFIC_PID" \in DOMAIN url_params_state[s]
                             /\ url_params_state[s]["PROLIFIC_PID"] = user_id[s]

\* C16: a submission whose score text does not parse to an integer leaves
\* the cursor and the responses as they were, and every recorded response
\* carries an integer score.
C16_NoMissingScoreRecorded ==
    [][\A s \in Sessions :
          /\ (/\ Submits(s)
              /\ InProgress(s)
              /\ event'.naturalness_score # None
              /\ ScoreOf(event'.naturalness_score) = None)
             => /\ current_page_state'[s] = current_page_state[s]
                /\ results_state'[s] = results_state[s]
          /\ \A i \in 1..Len(results_state'[s]) : IsInt(results_state'[s][i].score)]_vars

\* the write of session s failed earlier: a record sits in the responses
\* for a trial the cursor has not passed
WriteFailed(s) == Len(results_state[s]) > current_page_state[s]

\* C17: after a failed write the session accepts no submission and does not
\* write again, and no bundle written for a session holds more records than
\* the session has trials.
C17_PersistFailureIsFatal ==
    [][\A s \in Sessions :
          /\ Submits(s) /\ WriteFailed(s)
             => /\ results_state'[s] = results_state[s]
                /\ current_page_state'[s] = current_page_state[s]
                /\ results_dir' = results_dir
          /\ Submits(s) /\ results_dir' # results_dir
             => LET written == results_dir'[ResultsFile(user_id[s])]
                IN  IF "results" \in DOMAIN written
                    THEN Len(written.results) <= Len(test_cases_state[s])
                    ELSE TRUE]_vars

\* the systems named in a list of records
SystemsNamed(results) ==
    {results[i].ref_system : i \in 1..Len(results)}
    \cup {results[i].target_system : i \in 1..Len(results)}

\* the CMOS records of a list that count for system X under the stored
\* swap flag: the swapped ones whose reference system is X and the
\* unswapped ones whose target system is X
CountsFor(results, X) ==
    SelectSeq(results,
              LAMBDA r : /\ r.test_type = "CMOS"
                         /\ \/ r.swap /\ r.ref_system = X
                            \/ ~r.swap /\ r.target_system = X)

\* the sum of the scores of a list of records, a swapped record counting
\* with the negated score
RECURSIVE SignedSum(_)
SignedSum(records) ==
    IF records = <<>> THEN 0
    ELSE (IF Head(records).swap THEN 0 - IntOf(Head(records).score)
          ELSE IntOf(Head(records).score))
         + SignedSum(Tail(records))

\* C18: in what analyze_cmos returns, a system's samples are the swapped
\* CMOS records with that reference system, each counting with -score, and
\* the unswapped CMOS records with that target system, each counting with
\* score; no record counts for any other system.
C18_SwapCorrectedFromFlag ==
    (event.op = "analyze_cmos" /\ event.raised = "none")
    => /\ DOMAIN event.returned \subseteq SystemsNamed(event.results)
       /\ \A X \in SystemsNamed(event.results) \ {None} :
             LET records == CountsFor(event.results, X)
             IN  IF records = <<>> THEN X \notin DOMAIN event.returned
                 ELSE /\ X \in DOMAIN event.returned
                      /\ event.returned[X].n_samples = Len(records)
                      /\ event.returned[X].mean = <<SignedSum(records), Len(records)>>

\* a swapped record with reference system sysA, target system sysB and
\* score 2 was analyzed alone: sysA has one sample of -2, sysB has none
C18_Witness ==
    /\ event.op = "analyze_cmos"
    /\ event.raised = "none"
    /\ Len(event.results) = 1
    /\ event.results[1].swap
    /\ event.results[1].ref_system = <<"sysA">>
    /\ event.results[1].target_system = <<"sysB">>
    /\ event.results[1].score = PyIntValue(2)
    /\ DOMAIN event.returned = {<<"sysA">>}
    /\ event.returned[<<"sysA">>].mean = <<0 - 2, 1>>

\* the records of a bundle that are attention checks
AttentionRecords(results) ==
    SelectSeq(results, LAMBDA r : r.test_type = "attention")

\* the attention record carries the score that its audio's name encodes
Matches(r) ==
    /\ IsInt(ExpectedScore(r.reference_audio))
    /\ r.score = ExpectedScore(r.reference_audio)

\* the records that load_and_filter_json_files returned from file f
ReturnedFrom(f) ==
    SelectSeq(event.returned, LAMBDA r : r.file_path = f)

\* C19: of the files of the results directory that hold a bundle,
\* load_and_filter_json_files returns no record of a bundle that has
\* an attention record whose score is not the one encoded in its audio's
\* file name, and returns every CMOS and SMOS record of a bundle whose
\* attention records all carry the encoded score.
C19_FailedBundlesDiscarded ==
    (event.op = "load_and_filter_json_files" /\ event.raised = "none")
    => \A f \in {g \in DOMAIN results_dir : "results" \in DOMAIN results_dir[g]} :
          LET results == results_dir[f].results
              checks == AttentionRecords(results)
              kept == SelectSeq(results, LAMBDA r : r.test_type \in {"CMOS", "SMOS"})
          IN  IF \A i \in 1..Len(checks) : Matches(checks[i])
              THEN /\ Len(ReturnedFrom(f)) = Len(kept)
                   /\ \A i \in 1..Len(kept) :
                         /\ ReturnedFrom(f)[i].participant_id = results_dir[f].user_id
                         /\ [k \in DOMAIN kept[i] |-> ReturnedFrom(f)[i][k]] = kept[i]
              ELSE ReturnedFrom(f) = <<>>

\* the directory holds a bundle with a failed attention check and a CMOS
\* record, and a bundle with a passed attention check and a CMOS record;
\* the load returned the record of the second bundle
C19_Witness ==
    /\ event.op = "load_and_filter_json_files"
    /\ event.raised = "none"
    /\ DOMAIN results_dir =
           {ResultsFile(FirstParticipant), ResultsFile(OtherParticipant)}
    /\ \E i, j \in 1..Len(results_dir[ResultsFile(FirstParticipant)].results) :
          LET results == results_dir[ResultsFile(FirstParticipant)].results
          IN  /\ results[i].test_type = "attention"
              /\ ~Matches(results[i])
              /\ results[j].test_type = "CMOS"
    /\ \E i \in 1..Len(results_dir[ResultsFile(OtherParticipant)].results) :
          LET results == results_dir[ResultsFile(OtherParticipant)].results
          IN  /\ results[i].test_type = "attention"
              /\ Matches(results[i])
    /\ Len(event.returned) = 1
    /\ event.returned[1].file_path = ResultsFile(OtherParticipant)

\* tags that PAGE_CLASSES does not register
UnregisteredTags == {"dmos", "Attention", "qmos_negative_instruction", ""}

\* C20: create_page fails for every tag outside the registry, and every
\* configured instruction page is in the sequence that
\* sample_test_cases_for_session returns, whatever its type.
C20_UnknownTypeNeverSkipped ==
    /\ \A tag \in UnregisteredTags :
          create_page(Trial(tag, None, <<"b3.wav">>, FALSE)) = PageError
    /\ SessionSampled
       => \A i \in 1..Len(ListOrEmpty(cfg.instruction_pages)) :
             \E j \in 1..Len(sampled_cases) :
                 sampled_cases[j] = cfg.instruction_pages[i]

\* ---------------------------------------------------------------------
\* Properties of the webpage.py variant
\* ---------------------------------------------------------------------

\* C23: in webpage.py a page load, start or submission of one participant
\* leaves the cursor and the responses that another active participant
\* works on unchanged, and a bundle written on completion holds only
\* records that its own participant submitted.
C23_WebpageSessionsIsolated ==
    [][\A s \in Sessions, other \in Sessions :
          (event'.s = s /\ other # s)
          => /\ test_interface[other]
                => /\ cfg'.current_page = cfg.current_page
                   /\ cfg'.results = cfg.results
             /\ results_dir' # results_dir
                => \A i \in 1..Len(results_dir'[ResultsFile(user_id[s])].results) :
                      results_dir'[ResultsFile(user_id[s])].results[i].score
                      = WebScore[s]]_vars

\* ---------------------------------------------------------------------
\* Properties of the trial cursor and of the played flags
\* ---------------------------------------------------------------------

\* C21: within one session no trial is presented twice.  A step that is
\* not a page load of the session never lowers its cursor, and the session
\* never holds more responses than trials: every index of the sequence
\* receives at most one record.
C21_NoTrialPresentedTwice ==
    [][\A s \in Sessions :
          ~Loads(s)
          => /\ current_page_state'[s] >= current_page_state[s]
             /\ Len(results_state'[s]) <= Len(test_cases_state'[s])]_vars

\* C22: Completed is absorbing.  Once the cursor of a session is at the end
\* of its trial sequence, no event of that session other than a new page
\* load changes its cursor or its responses, writes its bundle again or
\* changes the results directory.
C22_CompletedIsAbsorbing ==
    [][\A s \in Sessions :
          (Completed(s) /\ event'.s = s /\ ~Loads(s))
          => /\ current_page_state'[s] = current_page_state[s]
             /\ results_state'[s] = results_state[s]
             /\ test_cases_state'[s] = test_cases_state[s]
             /\ writes'[s] = writes[s]
             /\ results_dir' = results_dir]_vars

\* a completed session over two trials received another submission with a
\* score selected and still holds its two responses, written once
C22_Witness ==
    /\ event.op = "run_test"
    /\ event.naturalness_score # None
    /\ Completed("s1")
    /\ Len(test_cases_state["s1"]) = 2
    /\ Len(results_state["s1"]) = 2
    /\ writes["s1"] = 1
    /\ ~target_audio_played_state["s1"]
    /\ target["s1"] = None

\* ---------------------------------------------------------------------
\* Properties of the order and grouping of the session sampler
\* ---------------------------------------------------------------------

\* 0-based index of a trial in the returned sequence
PositionOf(trial) ==
    CHOOSE p \in 0..(Len(sampled_cases) - 1) : sampled_cases[p + 1] = trial

\* C24 as stated: in the sequence main2.py returns, the k-th inserted
\* attention check is at a later index than the (k-1)-th, and every check
\* is before the 90th percentile of the sequence.
C24_ChecksInInsertionOrder ==
    SessionSampled
    => /\ \A k \in 2..num_attention :
             PositionOf(event.checks[k]) > PositionOf(event.checks[k - 1])
       /\ \A k \in 1..num_attention :
             10 * PositionOf(event.checks[k]) < 9 * Len(sampled_cases)

\* C24 amended: the k-th check is inserted at an index not lower than the
\* index the (k-1)-th was inserted at; it ends up at a later index than the
\* (k-1)-th when its insertion index was higher and before the (k-1)-th
\* when the two insertion indexes are equal.  Every check is before the
\* 90th percentile of the sequence.
C24_ChecksOrderedByDrawnIndex ==
    SessionSampled
    => /\ \A k \in 2..num_attention :
             /\ event.indexes[k] >= event.indexes[k - 1]
             /\ event.indexes[k] > event.indexes[k - 1]
                => PositionOf(event.checks[k]) > PositionOf(event.checks[k - 1])
             /\ event.indexes[k] = event.indexes[k - 1]
                => PositionOf(event.checks[k]) < PositionOf(event.checks[k - 1])
       /\ \A k \in 1..num_attention :
             10 * PositionOf(event.checks[k]) < 9 * Len(sampled_cases)

\* a sequence of 8 trials or more in which the second check was inserted
\* at the index of the first and sits before it
C24_Witness ==
    /\ SessionSampled
    /\ Len(sampled_cases) >= 8
    /\ event.indexes[2] = event.indexes[1]
    /\ PositionOf(event.checks[2]) < PositionOf(event.checks[1])
    /\ event.indexes[3] > event.indexes[2]

\* the test type an instruction trial belongs to
InstructedType(type) ==
    CASE type = "smos_instruction" -> "SMOS"
      [] type = "cmos_instruction" -> "CMOS"
      [] type = "nmos_instruction" -> "NMOS"
      [] type = "emos_instruction" -> "EMOS"
      [] type \in {"qmos_instruction", "qmos_negative_instruction"} -> "QMOS"
      [] OTHER -> "none"

\* the test types of the scored trials of the catalog
ScoredTypes == {cfg.test_cases[i].test : i \in 1..Len(cfg.test_cases)}

\* C25: in the sequence sample_test_cases_for_session returns (main2.py
\* and main.py), the instruction trial of a test type is before every
\* scored trial of that type, and between two scored trials of one type
\* there are only trials of that type and attention checks.
C25_TypeBucketsGrouped ==
    (SessionSampled \/ SessionSampledMain)
    => \A p \in 1..Len(sampled_cases), q \in 1..Len(sampled_cases) :
          /\ InstructedType(sampled_cases[p].type) = sampled_cases[q].type
             => p < q
          /\ (/\ p < q
              /\ sampled_cases[p].type \in ScoredTypes
              /\ sampled_cases[q].type = sampled_cases[p].type)
             => \A r \in p..q :
                   sampled_cases[r].type \in {sampled_cases[p].type, "attention"}

\* main2.py returned a sequence whose QMOS instruction follows a CMOS
\* trial and precedes two QMOS trials with an attention check between them
C25_Witness ==
    /\ SessionSampled
    /\ \E p \in 1..Len(sampled_cases), q \in 1..Len(sampled_cases),
          r \in 1..Len(sampled_cases), t \in 1..Len(sampled_cases) :
          /\ p < q /\ q < r /\ r + 1 < t
          /\ sampled_cases[p].type = "CMOS"
          /\ sampled_cases[q].type = "qmos_instruction"
          /\ sampled_cases[r].type = "QMOS"
          /\ sampled_cases[r + 1].type = "attention"
          /\ sampled_cases[t].type = "QMOS"

\* C26: the trial catalog is read-only after load.  No call of the session
\* samplers, by any session and after any number of earlier calls, changes
\* the comparison groups of the catalog, cfg.instructions or
\* cfg.attention_checks.
C26_CatalogReadOnly ==
    [][/\ cfg'.test_cases = cfg.test_cases
       /\ cfg'.instruction_pages = cfg.instruction_pages
       /\ cfg'.attention_checks = cfg.attention_checks]_vars

\* after a second call, made for another session, the returned sequence
\* starts with the CMOS instruction and has the second item of the CMOS
\* group before the first, while the group still holds its items in order
C26_Witness ==
    /\ loads = 2
    /\ event.op = "sample_test_cases_for_session"
    /\ event.s = "s2"
    /\ Len(sampled_cases) >= 3
    /\ sampled_cases[1].type = "cmos_instruction"
    /\ \E p \in 1..Len(sampled_cases), q \in 1..Len(sampled_cases) :
          /\ p < q
          /\ sampled_cases[p] = GroupItem("CMOS", 1, 2)
          /\ sampled_cases[q] = GroupItem("CMOS", 1, 1)
    /\ cfg.test_cases[1].system_pairs[1] = Group("CMOS", 1, 2)

\* C27: the trial sequence of a session is fixed for its lifetime.  A step
\* that is not a page load of the session (a submission, accepted or
\* rejected, a start, a playback event)
\* leaves its test_cases as the page load sampled them.
C27_TrialSequenceFixed ==
    [][\A s \in Sessions :
          ~Loads(s) => test_cases_state'[s] = test_cases_state[s]]_vars

\* after one page load, a session started by e-mail has had its first
\* submission accepted and is at the second trial of two
C27_Witness ==
    /\ loads = 1
    /\ event.op = "run_test"
    /\ HasAt(user_id["s1"])
    /\ Len(test_cases_state["s1"]) = 2
    /\ current_page_state["s1"] = 1
    /\ Len(results_state["s1"]) = 1
    /\ target["s1"] = test_cases_state["s1"][2].target

\* C28: both played flags of a session are false after every step that
\* advances its cursor (the completing one included) and after its page
\* load; a submission that does not advance the cursor leaves them as they
\* were; and whenever a session comes to a trial (by a start, an advance
\* or a load with a Prolific PID) both flags are false.
C28_PlayedFlagsReset ==
    [][\A s \in Sessions :
          /\ (current_page_state'[s] > current_page_state[s] \/ Loads(s))
             => /\ ~ref_audio_played_state'[s]
                /\ ~target_audio_played_state'[s]
          /\ (Submits(s) /\ current_page_state'[s] = current_page_state[s])
             => /\ ref_audio_played_state'[s] = ref_audio_played_state[s]
                /\ target_audio_played_state'[s] = target_audio_played_state[s]
          /\ (/\ InProgress(s)'
              /\ \/ ~InProgress(s)
                 \/ current_page_state'[s] # current_page_state[s]
                 \/ Loads(s))
             => /\ ~ref_audio_played_state'[s]
                /\ ~target_audio_played_state'[s]]_vars

\* a submission for a CMOS trial, accepted with both audios played, has
\* brought the session to its second trial with both flags false
C28_Witness ==
    /\ event.op = "run_test"
    /\ current_page_state["s1"] = 1
    /\ Len(test_cases_state["s1"]) = 2
    /\ Len(results_state["s1"]) = 1
    /\ results_state["s1"][1].test_type = "CMOS"
    /\ ~ref_audio_played_state["s1"]
    /\ ~target_audio_played_state["s1"]

\* ---------------------------------------------------------------------
\* Properties of the acceptance of a submission
\* ---------------------------------------------------------------------

\* the tags of the quality, naturalness and edit-fidelity families
NoReferenceTypes ==
    {"qmos", "QMOS", "qmos_instruction", "nmos", "NMOS", "nmos_instruction",
     "emos", "EMOS", "emos_instruction"}

\* what the claim asks to have been played before a trial of this type is
\* accepted
PlayedAsRequired(type, ref_audio_played, target_audio_played) ==
    IF type \in NoReferenceTypes THEN target_audio_played
    ELSE ref_audio_played /\ target_audio_played

\* the playback check of run_test lets a trial of every registered type
\* pass exactly when the audios its family requires have been played (a
\* trial outside the three families carries a reference audio)
GatingOfEveryType ==
    \A type \in DOMAIN PAGE_CLASSES, audio \in {None, <<"a1.wav">>},
       ref_audio_played \in BOOLEAN, target_audio_played \in BOOLEAN :
        (type \in NoReferenceTypes \/ audio # None)
        => (~PlaybackIncomplete(
                    create_page(Trial(type, audio, <<"b1.wav">>, FALSE)),
                    ref_audio_played, target_audio_played)
            <=> PlayedAsRequired(type, ref_audio_played, target_audio_played))

\* the submission of this step passed the checks of run_test: its response
\* was appended to the list of session s
Accepted(s) == Len(results_state'[s]) = Len(results_state[s]) + 1

\* C29: acceptance gating follows the trial family.  A submission with a
\* score selected is accepted for a quality, naturalness or edit-fidelity
\* trial exactly when the target audio has been played, and for a trial of
\* any other type exactly when both the reference and the target audio
\* have been played; the check that accepted it decides so for every
\* registered type.  An accepted submission moves the cursor by one unless
\* the call raised after the response was appended, and the cursor moves
\* for no other submission.
C29_GatingFollowsFamily ==
    [][\A s \in Sessions :
          (Submits(s) /\ InProgress(s) /\ event'.naturalness_score # None)
          => /\ Accepted(s)
                <=> PlayedAsRequired(CurrentTrial(s).type,
                                     ref_audio_played_state[s],
                                     target_audio_played_state[s])
             /\ Accepted(s) => GatingOfEveryType
             /\ current_page_state'[s] = current_page_state[s] + 1
                <=> (Accepted(s) /\ "raised" \notin DOMAIN event')]_vars

\* the second trial of a session, a QMOS trial with no reference slot, was
\* accepted after the CMOS trial before it, whose two audios were shown
C29_Witness ==
    /\ event.op = "run_test"
    /\ event.naturalness_score # None
    /\ Len(results_state["s1"]) = 2
    /\ results_state["s1"][1].test_type = "CMOS"
    /\ results_state["s1"][1].reference_audio # None
    /\ results_state["s1"][2].test_type = "QMOS"
    /\ results_state["s1"][2].reference_audio = None
    /\ current_page_state["s1"] = 2

\* C30: the submissions of a session are handled one at a time, and two
\* submissions for the same trial are never both accepted.  A submission
\* adds at most one response and advances the cursor by at most one, and it
\* adds a response only when the current trial has none yet.
C30_OneAcceptedSubmissionPerTrial ==
    [][\A s \in Sessions :
          Submits(s)
          => /\ current_page_state'[s] <= current_page_state[s] + 1
             /\ Len(results_state'[s]) <= Len(results_state[s]) + 1
             /\ Len(results_state'[s]) > Len(results_state[s])
                => Len(results_state[s]) = current_page_state[s]]_vars

\* ---------------------------------------------------------------------
\* Properties of the recovery from a refused start
\* ---------------------------------------------------------------------

\* the step is a click on Start by session s
Starts(s) == event'.op = "start_test" /\ event'.s = s

\* C31: a start with an identity that is not accepted (an e-mail that
\* is_valid_email refuses and no participant id) leaves the session
\* unidentified, with user_id None, cursor 0, no responses, the sampled
\* sequence as it was and the identity section shown; a start with a valid
\* e-mail made right after it is accepted on that sequence.
C31_RefusedStartRecoverable ==
    [][\A s \in Sessions :
          /\ (/\ Starts(s)
              /\ ~is_valid_email(event'.email_input)
              /\ ~Truthy(prolific_pid[s]))
             => /\ user_id'[s] = None
                /\ current_page_state'[s] = 0
                /\ results_state'[s] = <<>>
                /\ test_cases_state'[s] = test_cases_state[s]
                /\ id_input_section'[s]
                /\ ~test_interface'[s]
          /\ (/\ Starts(s)
              /\ is_valid_email(event'.email_input)
              /\ event.op = "start_test" /\ event.s = s
              /\ user_id[s] = None)
             => /\ user_id'[s] = event'.email_input
                /\ current_page_state'[s] = 0
                /\ results_state'[s] = <<>>
                /\ test_cases_state'[s] = test_cases_state[s]
                /\ test_interface'[s]
                /\ Len(test_cases_state[s]) > 0
                   => target'[s] = test_cases_state[s][1].target]_vars

\* C31, with the participant cap of main2.py: a start with an identity that
\* is not accepted leaves the session unidentified, with user_id None,
\* cursor 0, no responses, the sampled sequence as it was and the identity
\* section shown; a start with a valid e-mail made right after it is
\* accepted on that sequence when results/ lists fewer result files than
\* the cap, and is refused in the same way when it lists as many or more.
C31_RefusedStartRecoverableBelowCap ==
    [][\A s \in Sessions :
          /\ (/\ Starts(s)
              /\ ~is_valid_email(event'.email_input)
              /\ ~Truthy(prolific_pid[s]))
             => /\ user_id'[s] = None
                /\ current_page_state'[s] = 0
                /\ results_state'[s] = <<>>
                /\ test_cases_state'[s] = test_cases_state[s]
                /\ id_input_section'[s]
                /\ ~test_interface'[s]
          /\ (/\ Starts(s)
              /\ is_valid_email(event'.email_input)
              /\ event.op = "start_test" /\ event.s = s
              /\ user_id[s] = None)
             => /\ current_page_state'[s] = 0
                /\ results_state'[s] = <<>>
                /\ test_cases_state'[s] = test_cases_state[s]
                /\ IF NumResults(results_dir) < ParticipantCap
                   THEN /\ user_id'[s] = event'.email_input
                        /\ test_interface'[s]
                        /\ ~id_input_section'[s]
                        /\ Len(test_cases_state[s]) > 0
                           => target'[s] = test_cases_state[s][1].target
                   ELSE /\ user_id'[s] = None
                        /\ ~test_interface'[s]
                        /\ id_input_section'[s]]_vars

\* a start with a malformed e-mail has been refused: the session is
\* unidentified on the sequence of two trials its page load sampled
C31_Witness ==
    /\ event.op = "start_test"
    /\ event.email_input = EmailBad
    /\ user_id["s1"] = None
    /\ id_input_section["s1"]
    /\ ~test_interface["s1"]
    /\ Len(test_cases_state["s1"]) = 2
    /\ current_page_state["s1"] = 0
    /\ results_state["s1"] = <<>>

\* ---------------------------------------------------------------------
\* Properties of the stored record
\* ---------------------------------------------------------------------

\* C32: the swap correction is left to the analysis.  The record appended
\* for a submitted integer holds that integer as score, the swap flag of
\* the trial, and ref_system and target_system as the trial has them, for
\* swapped and unswapped trials alike.
C32_RecordStoresRawScore ==
    [][\A s \in Sessions :
          (/\ Submits(s)
           /\ InProgress(s)
           /\ Len(results_state'[s]) = Len(results_state[s]) + 1
           /\ ScoreOf(event'.naturalness_score) # None)
          => LET entry == results_state'[s][Len(results_state'[s])]
             IN  /\ entry.score = ScoreOf(event'.naturalness_score)
                 /\ entry.swap = CurrentTrial(s).swap
                 /\ entry.ref_system = CurrentTrial(s).ref_system
                 /\ entry.target_system = CurrentTrial(s).target_system]_vars

\* the record of a swapped CMOS trial answered with 2: score 2, swap set,
\* the systems as the trial names them
C32_Witness ==
    /\ event.op = "run_test"
    /\ Len(results_state["s1"]) = 1
    /\ results_state["s1"][1] =
          [test_type |-> "CMOS", reference_audio |-> cmos2.reference,
           target_audio |-> cmos2.target, ref_system |-> cmos2.ref_system,
           target_system |-> cmos2.target_system, swap |-> TRUE,
           score |-> PyIntValue(2)]

\* ---------------------------------------------------------------------
\* Properties of the per-utterance analysis
\* ---------------------------------------------------------------------

\* C33: the swap correction is applied uniformly.  analyze_per_utterance
\* returns for every list analyze_cmos has handled, and it appends for each
\* CMOS record with a system the score analyze_cmos counts for that
\* system: for a swapped record the negated score, for ref_system.
C33_PerUtteranceCorrectsAsCmos ==
    event.op = "analyze_per_utterance"
    => /\ event.raised = "none"
       /\ LET cmos == SelectSeq(event.results, Counted)
              credits == SelectSeq(event.credited,
                                   LAMBDA c : c.test_type = "CMOS")
          IN  /\ Len(credits) = Len(cmos)
              /\ \A i \in 1..Len(cmos) :
                    /\ credits[i].system = CmosSystem(cmos[i])
                    /\ IntOf(credits[i].score) = CorrectedScore(cmos[i])
\* ---------------------------------------------------------------------
\* The rating scales of the locale modules pages/english.py,
\* pages/finnish.py and pages/swedish.py, and the radio choices
\* MOSTest.create_radio_choices_and_default builds from them
\*
\* A page table maps a test type of PageFactory.PAGE_CLASSES to what the
\* page object of that type answers; a label is one token of text, with
\* the diacritics of the Finnish and Swedish labels left out.
\* ---------------------------------------------------------------------

EnglishPages ==
    LET similarity == [raises |-> "none", slider_config |-> <<1, 5, 3>>,
                       level_label |-> <<"Very Different", "Different",
                                         "Slightly Different", "Similar",
                                         "Very Similar">>]
        comparison == [raises |-> "none", slider_config |-> <<0 - 3, 3, 0>>,
                       level_label |-> <<"Sample A is much better",
                                         "Sample A is better",
                                         "Sample A is slightly better",
                                         "Equal quality",
                                         "Sample B is slightly better",
                                         "Sample B is better",
                                         "Sample B is much better">>]
        naturalness == [raises |-> "none", slider_config |-> <<1, 5, 3>>,
                        level_label |-> <<"Very Unnatural", "Unnatural",
                                          "Slightly Unnatural", "Natural",
                                          "Very Natural">>]
        quality == [raises |-> "none", slider_config |-> <<1, 5, 3>>,
                    level_label |-> <<"Very Bad", "Bad", "Ok", "Good",
                                      "Very Good">>]
        editing == [raises |-> "none", slider_config |-> <<1, 5, 3>>,
                    level_label |-> <<"Very Unnatural", "Unnatural",
                                      "Slightly Unnatural", "Natural",
                                      "Very Natural">>,
                    editing_slider_config |-> <<0, 3, 1>>,
                    editing_level_label |->
                        <<"The speech doesn't reflect the editing",
                          "Some editing is reflected",
                          "Most of the editing is reflected",
                          "All editing is reflected">>]
    IN  [smos |-> similarity, SMOS |-> similarity,
         smos_instruction |-> similarity,
         cmos |-> comparison, CMOS |-> comparison,
         cmos_instruction |-> comparison, attention |-> comparison,
         emos |-> editing, EMOS |-> editing, emos_instruction |-> editing,
         nmos |-> naturalness, NMOS |-> naturalness,
         nmos_instruction |-> naturalness,
         qmos |-> quality, QMOS |-> quality, qmos_instruction |-> quality]

\* the EMOS page of this locale defines none of the abstract methods of
\* TestPage, so that constructing it raises TypeError
FinnishPages ==
    LET similarity == [raises |-> "none", slider_config |-> <<0 - 2, 2, 0>>,
                       level_label |-> <<"Ei sama puhuja",
                                         "Todennakoisesti ei sama puhuja",
                                         "En osaa sanoa",
                                         "Todennakoisesti sama puhuja",
                                         "Sama puhuja">>]
        comparison == [raises |-> "none", slider_config |-> <<0 - 3, 3, 0>>,
                       level_label |->
                           <<"Aani A kuulostaa paljon enemman ihmisen kaltaiselta",
                             "Aani A kuulostaa enemman ihmisen kaltaiselta",
                             "Aani A kuulostaa hieman enemman ihmisen kaltaiselta",
                             "Molemmat kuulostavat yhta ihmisen kaltaisilta",
                             "Aani B kuulostaa hieman enemman ihmisen kaltaiselta",
                             "Aani B kuulostaa enemman ihmisen kaltaiselta",
                             "Aani B kuulostaa paljon enemman ihmisen kaltaiselta">>]
        editing == [raises |-> "TypeError"]
    IN  [smos |-> similarity, SMOS |-> similarity,
         smos_instruction |-> similarity,
         cmos |-> comparison, CMOS |-> comparison,
         cmos_instruction |-> comparison, attention |-> comparison,
         emos |-> editing, EMOS |-> editing]

SwedishPages ==
    LET similarity == [raises |-> "none", slider_config |-> <<0 - 2, 2, 0>>,
                       level_label |-> <<"inte samma talare",
                                         "troligen inte samma talare",
                                         "osaker", "troligen samma talare",
                                         "samma talare">>]
        comparison == [raises |-> "none", slider_config |-> <<0 - 3, 3, 0>>,
                       level_label |->
                           <<"Audio A ar mycket mer manniskolik",
                             "Audio A ar mer manniskolik",
                             "Audio A ar lite mer manniskolik",
                             "De later lika manniskolika",
                             "Audio B ar lite mer manniskolik",
                             "Audio B ar mer manniskolik",
                             "Audio B ar mycket mer manniskolik">>]
        editing == [raises |-> "TypeError"]
    IN  [smos |-> similarity, SMOS |-> similarity,
         smos_instruction |-> similarity,
         cmos |-> comparison, CMOS |-> comparison,
         cmos_instruction |-> comparison, attention |-> comparison,
         emos |-> editing, EMOS |-> editing]

\* a variant whose loop stops one step before max_val
create_radio_choices_below_max(page_obj, editing) ==
    LET config == IF editing THEN page_obj.editing_slider_config
                  ELSE page_obj.slider_config
        level_labels == IF editing THEN page_obj.editing_level_label
                        ELSE page_obj.level_label
        loop[k \in 0..Len(level_labels)] ==
            IF k = 0 THEN [choices |-> <<>>, values |-> <<>>,
                           current |-> config[1], label_index |-> 0]
            ELSE LET was == loop[k - 1]
                 IN  IF was.current < config[2]
                        /\ was.label_index < Len(level_labels)
                     THEN [choices |-> Append(was.choices,
                                              PyStr(was.current) \o <<":", " ">>
                                              \o <<level_labels[was.label_index + 1]>>),
                           values |-> Append(was.values, PyStr(was.current)),
                           current |-> was.current + 1,
                           label_index |-> was.label_index + 1]
                     ELSE was
    IN  [choices |-> loop[Len(level_labels)].choices,
         values |-> loop[Len(level_labels)].values]

\* MOSTest.create_radio_choices_and_default: loop[k] is the state of the
\* while loop after at most k iterations, and the loop runs at most
\* len(level_labels) times; a choice is the text f"{current}: {label}"
create_radio_choices_and_default(page_obj, editing) ==
    LET config == IF editing THEN page_obj.editing_slider_config
                  ELSE page_obj.slider_config
        level_labels == IF editing THEN page_obj.editing_level_label
                        ELSE page_obj.level_label
        loop[k \in 0..Len(level_labels)] ==
            IF k = 0 THEN [choices |-> <<>>, values |-> <<>>,
                           current |-> config[1], label_index |-> 0]
            ELSE LET was == loop[k - 1]
                 IN  IF was.current <= config[2]
                        /\ was.label_index < Len(level_labels)
                     THEN [choices |-> Append(was.choices,
                                              PyStr(was.current) \o <<":", " ">>
                                              \o <<level_labels[was.label_index + 1]>>),
                           values |-> Append(was.values, PyStr(was.current)),
                           current |-> was.current + 1,
                           label_index |-> was.label_index + 1]
                     ELSE was
    IN  [choices |-> loop[Len(level_labels)].choices,
         values |-> loop[Len(level_labels)].values]

\* main imported the page module of one of the languages; no page was
\* rendered yet
InitLocale ==
    /\ cfg \in {[language |-> language,
                 pages |-> CASE language = "english" -> EnglishPages
                             [] language = "finnish" -> FinnishPages
                             [] language = "swedish" -> SwedishPages] :
                    language \in {"english", "finnish", "swedish"}}
    /\ IdleSessions
    /\ sampled_cases = NoList

\* the choices of one page as get_initial_test_updates, start_test and
\* run_test build them: PageFactory.create_page on a test case, then
\* create_radio_choices_and_default, for the editing scale too when the
\* page is an EMOS page
CreateRadioChoices ==
    /\ \E type \in DOMAIN PAGE_CLASSES : \E i \in 1..MaxGroupLen :
       \E editing \in BOOLEAN :
       LET test_case == GroupItem(type, 1, i)
       IN  /\ editing => /\ type \in DOMAIN cfg.pages
                         /\ "editing_slider_config" \in DOMAIN cfg.pages[type]
           /\ event' =
                [op |-> "create_radio_choices_and_default", s |-> "none",
                 test_case |-> test_case, editing |-> editing]
                @@ (IF type \notin DOMAIN cfg.pages
                    THEN [raised |-> "ValueError"]
                    ELSE IF cfg.pages[type].raises # "none"
                    THEN [raised |-> cfg.pages[type].raises]
                    ELSE [raised |-> "none",
                          slider_config |->
                              IF editing
                              THEN cfg.pages[type].editing_slider_config
                              ELSE get_slider_config(create_page(test_case))]
                         @@ create_radio_choices_and_default(cfg.pages[type],
                                                             editing))
    /\ UNCHANGED <<cfg, user_id, url_params_state, test_cases_state,
                   current_page_state, results_state, ref_audio_played_state,
                   target_audio_played_state, prolific_pid, id_input_section,
                   test_interface, reference, reference_visible, target, submit_score, redirect,
                   results_dir, writes, loads, sampled_cases>>

NextLocale == CreateRadioChoices

SpecLocale == InitLocale /\ [][NextLocale]_vars

\* the texts str(min), ..., str(max)
RECURSIVE ScaleValues(_, _)
ScaleValues(min_val, max_val) ==
    IF min_val > max_val THEN <<>>
    ELSE <<PyStr(min_val)>> \o ScaleValues(min_val + 1, max_val)

\* C34: whenever the radio choices of a page of any locale module are built,
\* for the rating scale or for the editing scale of an EMOS page, there is
\* exactly one choice for each integer from min to max inclusive, in
\* ascending order, none missing and none beyond max, and each choice reads
\* back as its integer
C34_OneChoicePerScaleStep ==
    (event.op = "create_radio_choices_and_default" /\ event.raised = "none") =>
        /\ event.values = ScaleValues(event.slider_config[1], event.slider_config[2])
        /\ Len(event.choices) = event.slider_config[2] - event.slider_config[1] + 1
        /\ \A k \in 1..Len(event.choices) :
               PyInt(SplitFirst(event.choices[k])) =
                   PyIntValue(event.slider_config[1] + k - 1)

\* the editing scale of the English EMOS page offered as 0, 1, 2, 3
C34_Witness ==
    /\ event.op = "create_radio_choices_and_default"
    /\ event.raised = "none"
    /\ cfg.language = "english"
    /\ event.test_case.type = "EMOS"
    /\ event.editing
    /\ event.values = <<<<"0">>, <<"1">>, <<"2">>, <<"3">>>>
\* ---------------------------------------------------------------------
\* A playback-finished notification that is handled late
\*
\* reference.stop and target.stop (main2.py lines 629-637) call handlers
\* that take no input: the notification does not say which audio finished.
\* The click on Submit and the stop of the audio are different listeners,
\* so a notification raised while the click of trial k-1 was being handled
\* is served after run_test has returned.
\* ---------------------------------------------------------------------

\* target.stop -> mark_target_audio_played for the target of the trial
\* before the current one, served right after the run_test call that
\* advanced the session; the event keeps the audio that finished
MarkTargetAudioPlayedLate(s) ==
    /\ test_interface[s]
    /\ event.op = "run_test" /\ event.s = s
    /\ 0 < current_page_state[s]
    /\ current_page_state[s] < Len(test_cases_state[s])
    /\ Len(results_state[s]) = current_page_state[s]
    /\ ~ref_audio_played_state[s] /\ ~target_audio_played_state[s]
    /\ event' = [op |-> "mark_target_audio_played", s |-> s,
                 audio |-> test_cases_state[s][current_page_state[s]].target]
    /\ target_audio_played_state' = SetForSession(target_audio_played_state, s, TRUE)
    /\ UNCHANGED <<cfg, user_id, url_params_state, test_cases_state,
                   current_page_state, results_state, ref_audio_played_state,
                   prolific_pid, id_input_section, test_interface, reference, reference_visible,
                   target, submit_score, redirect, results_dir, writes, loads,
                   sampled_cases>>

\* One participant whose playback notifications may be served late
NextLatePlayback ==
    \/ \E params \in UrlParams : Load("s1", params)
    \/ StartTest("s1", EmailGood)
    \/ MarkRefAudioPlayed("s1")
    \/ MarkTargetAudioPlayed("s1")
    \/ MarkTargetAudioPlayedLate("s1")
    \/ \E naturalness_score \in SharedScoreInputs :
            RunTest("s1", naturalness_score, None)

SpecLatePlayback == Init /\ [][NextLatePlayback]_vars

\* C35: the target played flag of a session turns true only by a
\* playback-finished notification for the target audio of the trial that is
\* current, so that a notification for the audio of the trial before it,
\* handled after the advance, cannot count for the current trial
C35_PlayedFlagOfCurrentAudio ==
    [][\A s \in Sessions :
          (~target_audio_played_state[s] /\ target_audio_played_state'[s]) =>
              /\ event'.op = "mark_target_audio_played"
              /\ event'.s = s
              /\ (IF "audio" \in DOMAIN event' THEN event'.audio ELSE target[s])
                    = target'[s]]_vars

\* C36: in every state of every session the responses are as many as the
\* cursor says, and the i-th response has the test type and the target audio
\* of the i-th trial of the session's sequence
C36_ResponsesMatchCursor ==
    \A s \in Sessions :
        /\ Len(results_state[s]) = current_page_state[s]
        /\ \A i \in 1..Len(results_state[s]) :
               /\ i <= Len(test_cases_state[s])
               /\ results_state[s][i].test_type = test_cases_state[s][i].type
               /\ results_state[s][i].target_audio = test_cases_state[s][i].target
\* ---------------------------------------------------------------------
\* Progress of a session, with a participant who keeps listening and
\* submitting, in the English application and in a Finnish one whose
\* catalog holds an EMOS group
\* ---------------------------------------------------------------------

\* The English application with a participant who goes on: each audio shown
\* is eventually played to its end and a score is eventually submitted
SpecProgress ==
    /\ Init /\ [][Next]_vars
    /\ WF_vars(MarkRefAudioPlayed("s1"))
    /\ WF_vars(MarkTargetAudioPlayed("s1"))
    /\ WF_vars(\E naturalness_score \in SharedScoreInputs :
                    RunTest("s1", naturalness_score, None))

\* main with language = finnish (page module pages/finnish.py) and a catalog
\* of one CMOS group and one EMOS group, each of one test case
InitFinnish ==
    /\ cfg = [test_cases |-> <<[test |-> "CMOS", system_pairs |-> <<<<cmos1>>>>],
                               [test |-> "EMOS",
                                system_pairs |->
                                    <<<<Trial("EMOS", None, <<"b4.wav">>, FALSE)>>>>]>>,
              sample_size_per_test |-> 1,
              instruction_pages |-> NoList,
              attention_checks |-> NoList,
              language |-> "finnish",
              pages |-> FinnishPages]
    /\ IdleSessions
    /\ sampled_cases = NoList

\* submissions of one trial that end with an exception explored in one run
MaxRaisedSubmissions == 2

\* a click on Submit with a score picked, while fewer than
\* MaxRaisedSubmissions calls have raised for the current trial (each of
\* them left its record in the list, see run_test)
SubmitScore(s) ==
    /\ Len(results_state[s]) - current_page_state[s] < MaxRaisedSubmissions
    /\ \E naturalness_score \in SharedScoreInputs \cup {ScoreAboveComparisonScale} :
            RunTest(s, naturalness_score, None)

NextFinnish ==
    \/ \E params \in UrlParams : Load("s1", params)
    \/ StartTest("s1", EmailGood)
    \/ MarkRefAudioPlayed("s1")
    \/ MarkTargetAudioPlayed("s1")
    \/ SubmitScore("s1")

\* the Finnish application with a participant who goes on
SpecFinnish ==
    /\ InitFinnish /\ [][NextFinnish]_vars
    /\ WF_vars(MarkRefAudioPlayed("s1"))
    /\ WF_vars(MarkTargetAudioPlayed("s1"))
    /\ WF_vars(SubmitScore("s1"))

\* with every audio of the current trial played, some score of the radio
\* group is accepted and moves the session to the next trial
SomeSubmissionAdvances(s) ==
    \E naturalness_score \in SharedScoreInputs :
        LET out == run_test(user_id[s], naturalness_score, TRUE, TRUE, None,
                            test_cases_state[s], current_page_state[s],
                            results_state[s], url_params_state[s])
        IN  ~out.raised /\ out.current_page = current_page_state[s] + 1

\* C37: no session in progress refuses every submission, and a session in
\* progress whose participant keeps playing the audio and submitting a
\* score is eventually completed with a bundle under its user_id in the
\* results directory (a page load starts another session, so the session
\* meant is the one after the last load)
C37_SessionCompletes ==
    /\ [](\A s \in Sessions : InProgress(s) => SomeSubmissionAdvances(s))
    /\ (InProgress("s1") /\ loads = MaxLoads)
            ~> (Completed("s1")
                /\ ResultsFile(user_id["s1"]) \in DOMAIN results_dir)
\* ---------------------------------------------------------------------
\* The participant cap of main2.py's start_test, in a results directory
\* that earlier participants have filled up to the cap or to one below it
\* ---------------------------------------------------------------------

\* an earlier participant whose e-mail address begins with a dot: the
\* bundle is a hidden file
HiddenParticipant == <<".", "a", "@", "b", ".", "f", "i">>

\* results/ with the bundles of n earlier participants after a run of
\* qmos_analysis.py on it, which has left mos_results.json there
AnalysedBundles(n) ==
    qmos_analysis_main(EarlierBundles(n),
                       [i \in 1..n |-> ResultsFile(EarlierParticipant(i))]).directory

InitCap ==
    /\ cfg \in Configs
    /\ user_id = [s \in Sessions |-> None]
    /\ url_params_state = [s \in Sessions |-> <<>>]
    /\ test_cases_state = [s \in Sessions |-> <<>>]
    /\ current_page_state = [s \in Sessions |-> 0]
    /\ results_state = [s \in Sessions |-> <<>>]
    /\ ref_audio_played_state = [s \in Sessions |-> FALSE]
    /\ target_audio_played_state = [s \in Sessions |-> FALSE]
    /\ prolific_pid = [s \in Sessions |-> <<>>]
    /\ id_input_section = [s \in Sessions |-> TRUE]
    /\ test_interface = [s \in Sessions |-> FALSE]
    /\ reference = [s \in Sessions |-> None]
    /\ reference_visible = [s \in Sessions |-> TRUE]
    /\ target = [s \in Sessions |-> None]
    /\ submit_score = [s \in Sessions |-> TRUE]
    /\ redirect = [s \in Sessions |-> FALSE]
    /\ results_dir \in {EarlierBundles(ParticipantCap - 1),
                        EarlierBundles(ParticipantCap),
                        WriteResults(EarlierBundles(ParticipantCap - 1),
                                     HiddenParticipant, <<>>),
                        AnalysedBundles(ParticipantCap - 1)}
    /\ writes = [s \in Sessions |-> 0]
    /\ loads = 0
    /\ event = [op |-> "none", s |-> "none"]
    /\ sampled_cases = NoList

SpecCap == InitCap /\ [][NextShared]_vars

\* C38: results/ never holds more result bundles than the participant cap,
\* whether the sessions are started by e-mail or through PROLIFIC_PID and
\* with several sessions in progress when the last bundle below the cap is
\* written.  The files of results/ that hold a bundle are counted.
C38_BundlesWithinCap ==
    Cardinality({f \in DOMAIN results_dir : "results" \in DOMAIN results_dir[f]})
        <= ParticipantCap

\* ---------------------------------------------------------------------
\* A session of the English application over a catalog with an EMOS group
\* ---------------------------------------------------------------------

\* MOSTest.__init__ with a catalog of one EMOS test case, alone or followed
\* by a CMOS group
InitEmos ==
    /\ cfg \in {[test_cases |->
                    <<[test |-> "EMOS",
                       system_pairs |->
                           <<<<[Trial("EMOS", None, <<"b4.wav">>, FALSE)
                                   EXCEPT !.edited_transcript = <<"t">>]>>>>]>>
                    \o rest,
                 sample_size_per_test |-> 1,
                 instruction_pages |-> NoList,
                 attention_checks |-> NoList] :
                    rest \in {<<>>, <<[test |-> "CMOS",
                                       system_pairs |-> <<<<cmos1>>>>]>>}}
    /\ IdleSessions
    /\ sampled_cases = NoList

SpecEmos == InitEmos /\ [][Next]_vars

\* C39: every response to an EMOS trial holds an integer naturalness_score
\* from 1 to 5, an integer editing_score from 0 to 3 and the edited
\* transcript of its trial, and has no score field; so a submission without
\* an editing score leaves no response
C39_EmosRecordComplete ==
    \A s \in Sessions : \A i \in 1..Len(results_state[s]) :
        LET result == results_state[s][i]
        IN  result.test_type = "EMOS" =>
                /\ "score" \notin DOMAIN result
                /\ {"naturalness_score", "editing_score", "edited_transcript"}
                        \subseteq DOMAIN result
                /\ IsInt(result.naturalness_score)
                /\ IntOf(result.naturalness_score) \in 1..5
                /\ IsInt(result.editing_score)
                /\ IntOf(result.editing_score) \in 0..3
                /\ i <= Len(test_cases_state[s])
                /\ result.edited_transcript = test_cases_state[s][i].edited_transcript

====
